---- MODULE Spec2Model ----
(***************************************************************************)
(* Plants-vs-Zombies simulation core: resource ledger (SunSystem), lawn    *)
(* grid (GridSystem), entity store (World), melee / explosion damage       *)
(* (CombatSystem, ZombieAI), wave director (WaveManager) and the frame     *)
(* loop (Game).                                                            *)
(*                                                                         *)
(* Units: time in milliseconds, lengths in millimetres (1 world unit =     *)
(* 1000 mm), so that every source constant is an integer.                  *)
(***************************************************************************)
EXTENDS Integers, Sequences, FiniteSets, TLC

VARIABLES
    sunAmount,        \* SunSystem.sunAmount
    ledgerLog,        \* history: the ledger calls made so far
    grid,             \* GridSystem.grid[row][col] = {occupied, entity}
    gridLog,          \* history: the last grid call and the grid before it
    state,            \* Game.state
    timeScale,        \* Time.timeScale
    elapsedTime,      \* Time.elapsedTime (ms of scaled simulation time)
    lastNaturalSpawn, \* SunSystem.lastNaturalSpawn
    heap,             \* every Entity object created so far, by id
    store,            \* ids held in World.entities
    pendingRemovals,  \* World.pendingRemovals
    wm,               \* WaveManager fields
    timers,           \* pending setTimeout start-wave callbacks
    anims,            \* pending animateDeath / animateSunCollect closures
    hist,             \* history: sessions started, idle frames, last wave check
    waveLog,          \* history: the last direct WaveManager call
    coordLog,         \* history: the last coordinate conversion
    preview,          \* GridSystem.selectedPlant / previewValid, last call
    projectilePool,   \* CombatSystem.projectilePool: mesh.visible per handle
    poolInScene       \* per pool handle: the mesh is a child of the scene

ledgerVars == <<sunAmount, ledgerLog>>
gridVars   == <<grid, gridLog>>
probeVars  == <<coordLog, preview>>
gameVars   == <<state, timeScale, elapsedTime, lastNaturalSpawn, heap, store,
                pendingRemovals, wm, timers, anims, hist, waveLog, probeVars,
                projectilePool, poolInScene>>
vars == <<sunAmount, ledgerLog, grid, gridLog, state, timeScale, elapsedTime,
          lastNaturalSpawn, heap, store, pendingRemovals, wm, timers,
          anims, hist, waveLog, probeVars, projectilePool, poolInScene>>

NULL == -1

(***************************************************************************)
(* Configuration (Constants.js, GAME_CONFIG)                               *)
(***************************************************************************)
ROWS == 5
COLS == 9
CELL_SIZE == 1200
OFFSET_X == -5400
OFFSET_Z == -2400
MAX_DELTA == 100
STARTING_AMOUNT == 150
NATURAL_SPAWN_INTERVAL == 5000
NATURAL_SUN_VALUE == 50

Cells == (0 .. ROWS - 1) \X (0 .. COLS - 1)

(***************************************************************************)
(* Bounds of the model                                                     *)
(***************************************************************************)
MaxLedgerOps == 3      \* ledger calls recorded per run of the ledger spec
MaxRowIn == 0          \* grid spec: valid input rows are 0..MaxRowIn
MaxColIn == 1          \* grid spec: valid input columns are 0..MaxColIn

(***************************************************************************)
(* Resource ledger (SunSystem)                                             *)
(***************************************************************************)
addSun(s, amount) == [sun |-> s + amount, fired |-> TRUE]

spendSunUnguarded(s, amount) ==
    [sun |-> s - amount, ret |-> TRUE, fired |-> TRUE]

spendSunStrict(s, amount) ==
    IF s > amount
    THEN [sun |-> s - amount, ret |-> TRUE, fired |-> TRUE]
    ELSE [sun |-> s, ret |-> FALSE, fired |-> FALSE]

spendSunAlwaysNotifies(s, amount) ==
    IF s >= amount
    THEN [sun |-> s - amount, ret |-> TRUE, fired |-> TRUE]
    ELSE [sun |-> s, ret |-> FALSE, fired |-> TRUE]

spendSun(s, amount) ==
    IF s >= amount
    THEN [sun |-> s - amount, ret |-> TRUE, fired |-> TRUE]
    ELSE [sun |-> s, ret |-> FALSE, fired |-> FALSE]

canAffordStrict(s, amount) == s > amount

canAfford(s, amount) == s >= amount

\* the ledger part of SunSystem.reset()
sunReset == [sun |-> STARTING_AMOUNT, fired |-> TRUE]

\* amounts the ledger is called with: sun values, kill bonus, plant costs
AddAmounts == {0, 25, 50, 100}
SpendAmounts == {0, 50, 100, 150, 175}

\* ret: the call's result; check: for checkThenSpend, what canAfford said
LedgerEntry(op, amount, ret, check, before, after, fired) ==
    [op |-> op, amount |-> amount, ret |-> ret, check |-> check,
     before |-> before, after |-> after, fired |-> fired]

LedgerRoom == Len(ledgerLog) < MaxLedgerOps

LAddSun(a) ==
    LET r == addSun(sunAmount, a) IN
    /\ LedgerRoom
    /\ sunAmount' = r.sun
    /\ ledgerLog' = Append(ledgerLog,
            LedgerEntry("addSun", a, TRUE, FALSE, sunAmount, r.sun, r.fired))
    /\ UNCHANGED <<gridVars, gameVars>>

LSpendSun(a) ==
    LET r == spendSun(sunAmount, a) IN
    /\ LedgerRoom
    /\ sunAmount' = r.sun
    /\ ledgerLog' = Append(ledgerLog,
            LedgerEntry("spendSun", a, r.ret, FALSE, sunAmount, r.sun, r.fired))
    /\ UNCHANGED <<gridVars, gameVars>>

\* canAfford(a) (UIManager.selectPlant) immediately followed by spendSun(a)
\* (Game.tryPlacePlant) on the same ledger state
LCheckThenSpend(a) ==
    LET c == canAfford(sunAmount, a)
        r == spendSun(sunAmount, a) IN
    /\ LedgerRoom
    /\ sunAmount' = r.sun
    /\ ledgerLog' = Append(ledgerLog,
            LedgerEntry("checkThenSpend", a, r.ret, c, sunAmount, r.sun,
                        r.fired))
    /\ UNCHANGED <<gridVars, gameVars>>

LCanAfford(a) ==
    /\ LedgerRoom
    /\ ledgerLog' = Append(ledgerLog,
            LedgerEntry("canAfford", a, canAfford(sunAmount, a), FALSE, sunAmount,
                        sunAmount, FALSE))
    /\ UNCHANGED <<sunAmount, gridVars, gameVars>>

LReset ==
    /\ LedgerRoom
    /\ sunAmount' = sunReset.sun
    /\ ledgerLog' = Append(ledgerLog,
            LedgerEntry("reset", 0, TRUE, FALSE, sunAmount, sunReset.sun,
                        sunReset.fired))
    /\ UNCHANGED <<gridVars, gameVars>>

(***************************************************************************)
(* Spatial grid (GridSystem)                                               *)
(***************************************************************************)
EmptyCell == [occupied |-> FALSE, entity |-> NULL]

initializeGrid == [c \in Cells |-> EmptyCell]

isValidCell(row, col) == row >= 0 /\ row < ROWS /\ col >= 0 /\ col < COLS

isCellEmpty(g, row, col) ==
    IF ~isValidCell(row, col) THEN FALSE ELSE ~g[<<row, col>>].occupied

placePlantOverwrites(g, row, col, entity) ==
    IF ~isValidCell(row, col)
    THEN [grid |-> g, ret |-> FALSE]
    ELSE [grid |-> [g EXCEPT ![<<row, col>>] =
                        [occupied |-> TRUE, entity |-> entity]],
          ret |-> TRUE]

placePlant(g, row, col, entity) ==
    IF ~isValidCell(row, col) \/ ~isCellEmpty(g, row, col)
    THEN [grid |-> g, ret |-> FALSE]
    ELSE [grid |-> [g EXCEPT ![<<row, col>>] =
                        [occupied |-> TRUE, entity |-> entity]],
          ret |-> TRUE]

removePlant(g, row, col) ==
    IF ~isValidCell(row, col)
    THEN [grid |-> g, ret |-> NULL]
    ELSE [grid |-> [g EXCEPT ![<<row, col>>] = EmptyCell],
          ret |-> g[<<row, col>>].entity]

\* row-major scan for the first cell whose entity is this one
CellsOf(g, entity) == {c \in Cells : g[c].entity = entity}

FirstCellOf(g, entity) ==
    CHOOSE c \in CellsOf(g, entity) :
        \A d \in CellsOf(g, entity) :
            c[1] < d[1] \/ (c[1] = d[1] /\ c[2] <= d[2])

getPlantRow(g, entity) ==
    IF CellsOf(g, entity) = {} THEN -1 ELSE FirstCellOf(g, entity)[1]

getPlantColumn(g, entity) ==
    IF CellsOf(g, entity) = {} THEN -1 ELSE FirstCellOf(g, entity)[2]

gridClear == [c \in Cells |-> EmptyCell]

\* inputs of the grid spec: some valid cells, one row and one column outside
GridRowsIn == (0 .. MaxRowIn) \cup {ROWS}
GridColsIn == (0 .. MaxColIn) \cup {-1}
GridEnts == {0, 1}

GridEntry(op, row, col, entity, ret, before) ==
    [op |-> op, row |-> row, col |-> col, entity |-> entity, ret |-> ret,
     before |-> before]

GPlacePlant(row, col, e) ==
    LET r == placePlant(grid, row, col, e) IN
    /\ grid' = r.grid
    /\ gridLog' = GridEntry("placePlant", row, col, e, r.ret, grid)
    /\ UNCHANGED <<ledgerVars, gameVars>>

GRemovePlant(row, col) ==
    LET r == removePlant(grid, row, col) IN
    /\ grid' = r.grid
    /\ gridLog' = GridEntry("removePlant", row, col, NULL, r.ret, grid)
    /\ UNCHANGED <<ledgerVars, gameVars>>

\* placePlant(row,col,e) immediately followed by removePlant(row,col);
\* ret is the pair of results
GPlaceThenRemove(row, col, e) ==
    LET p == placePlant(grid, row, col, e)
        r == removePlant(p.grid, row, col) IN
    /\ grid' = r.grid
    /\ gridLog' = GridEntry("placeThenRemove", row, col, e,
                            <<p.ret, r.ret>>, grid)
    /\ UNCHANGED <<ledgerVars, gameVars>>

(***************************************************************************)
(* Bounds and inputs of the game specification                             *)
(***************************************************************************)
FrameMs == 1000        \* real time between two animation frames
MaxElapsed == 4400     \* simulation time explored per session (ms)
MaxEnt == 6            \* entities created per run
MaxSessions == 2       \* startGame calls per run
MaxIdleFrames == 1     \* frames explored while simulation time stands still
MaxPauses == 1         \* pauseGame calls per run
MaxGroupCount == 2     \* zombies scheduled per wave group (table count capped)
MaxLane == 0           \* lanes in play: spawn rows and placement rows 0..MaxLane
MaxWaveElapsed == 12000  \* wave spec: simulated ms per session
MaxZombieWalk == 200     \* wave spec: mm a zombie walks before it is hit
MaxWalkElapsed == 19000  \* walk spec: simulated ms per session
MaxCountIn == 3          \* director spec: zombies per input group
MaxGroupsIn == 2         \* director spec: groups per input wave
MaxDirectorEnt == 6      \* director spec: zombies spawned per run
MaxNames == 2            \* component names per query
MaxStrideElapsed == 18000  \* stride spec: simulated ms of one walk
maxProjectiles == 2      \* CombatSystem.maxProjectiles (200 in the source)
MaxShootElapsed == 1600  \* peashooter spec: simulated ms of one session
MaxShootPauses == 2      \* peashooter spec: pauses
MaxBlockElapsed == 3600  \* blocking spec: simulated ms of one walk
MaxDestroys == 3         \* destroy() + removeEntity calls on one entity

Lanes == 0 .. MaxLane
PlaceCols == {COLS - 1}
PlantInputs == {"SUNFLOWER", "WALLNUT", "CHERRYBOMB"}
Jitters == {0, 240}    \* Math.random() * 2 in spawnZombie, in mm

Min(a, b) == IF a < b THEN a ELSE b
Max(a, b) == IF a > b THEN a ELSE b
Abs(a) == IF a < 0 THEN -a ELSE a
Range(s) == {s[i] : i \in 1 .. Len(s)}

(***************************************************************************)
(* Configuration tables (Constants.js, GAME_CONFIG.PLANTS / ZOMBIES /      *)
(* WAVES)                                                                  *)
(***************************************************************************)
PLANTS ==
    [PEASHOOTER |-> [cost |-> 100, health |-> 300, fireRate |-> 200,
                     damage |-> 15],
     SUNFLOWER  |-> [cost |-> 50, health |-> 300, sunInterval |-> 10000,
                     sunValue |-> 50],
     WALLNUT    |-> [cost |-> 50, health |-> 4000],
     CHERRYBOMB |-> [cost |-> 150, health |-> 1, explosionRadius |-> 2000,
                     explosionDamage |-> 2000]]

ZOMBIES ==
    [basic  |-> [health |-> 200, speed |-> 800, damage |-> 80,
                 attackSpeed |-> 600],
     cone   |-> [health |-> 450, speed |-> 700, damage |-> 80,
                 attackSpeed |-> 600],
     bucket |-> [health |-> 900, speed |-> 600, damage |-> 80,
                 attackSpeed |-> 600],
     flag   |-> [health |-> 200, speed |-> 1200, damage |-> 80,
                 attackSpeed |-> 600]]

Group(type, count, interval) ==
    [type |-> type, count |-> Min(count, MaxGroupCount), interval |-> interval]

WAVES ==
    << [zombies |-> << Group("basic", 8, 3000) >>, delay |-> 4000],
       [zombies |-> << Group("basic", 12, 2500), Group("cone", 5, 6000) >>,
        delay |-> 4000],
       [zombies |-> << Group("basic", 15, 2000), Group("cone", 8, 5000),
                       Group("bucket", 3, 12000) >>, delay |-> 4000],
       [zombies |-> << Group("basic", 20, 1500), Group("cone", 12, 4000),
                       Group("bucket", 6, 8000), Group("flag", 2, 15000) >>,
        delay |-> 3000],
       [zombies |-> << Group("basic", 30, 1000), Group("cone", 15, 3000),
                       Group("bucket", 10, 6000), Group("flag", 4, 12000) >>,
        delay |-> 3000] >>

KILL_BONUS == 100
PROJECTILE_SPEED == 15000
MUZZLE_OFFSET == 400
PROJECTILE_BOUND == 10000
HIT_RADIUS == 500
EXPLOSIVE_DELAY == 1000
SUN_DECAY == 10000
DEATH_ANIM_MS == 350
COLLECT_ANIM_MS == 200
FIRST_WAVE_DELAY == 3000
NEXT_WAVE_DELAY == 5000
BLOCK_REACH == 600
BLOCK_BEHIND == 400
HOUSE_MARGIN == 1000
SPAWN_MARGIN == 2000

(***************************************************************************)
(* World (ECS.js).  The model threads a record w through the handlers:     *)
(*   sun, grid, heap, store, pend, wm, timers, anims, state, ts, elapsed,  *)
(*   lastNat, hist, pool, threw                                            *)
(* heap[id + 1] is the Entity object with that id; the fields released,    *)
(* deathRuns, lateHits, bonus, firedAt, volley, blind, hits, explosions,   *)
(* blastTimer, seen, blasted, bites, blockedAt, biteAt, offLane and        *)
(* strayHits of an entity are history fields.                              *)
(***************************************************************************)
Entity(type) ==
    [type |-> type, active |-> TRUE, mesh |-> FALSE, kind |-> "none",
     x |-> 0, z |-> 0, hp |-> 0, row |-> NULL, zstate |-> "none",
     target |-> NULL, lastAttack |-> 0, reachedHouse |-> FALSE,
     timer |-> 0, exploded |-> FALSE, lastProduced |-> 0, value |-> 0,
     collected |-> FALSE, animTime |-> 0,
     lastShot |-> 0, damage |-> 0, handle |-> NULL, owner |-> NULL,
     born |-> 0,
     released |-> 0, deathRuns |-> 0, lateHits |-> 0, bonus |-> 0,
     firedAt |-> 0, volley |-> 0, blind |-> 0, hits |-> 0,
     explosions |-> 0, blastTimer |-> 0, seen |-> 0, blasted |-> 0,
     bites |-> 0, blockedAt |-> 0, biteAt |-> 0, offLane |-> 0,
     strayHits |-> 0]

Ent(w, id) == w.heap[id + 1]

createEntity(w, rec) ==
    [w EXCEPT !.heap = Append(@, rec), !.store = @ \cup {Len(w.heap)}]

destroy(w, id) == [w EXCEPT !.heap[id + 1].active = FALSE]

removeEntity(w, id) == [w EXCEPT !.pend = Append(@, id)]

\* "scene.remove(entity.mesh)" and the disposal of its geometry and
\* material, for each of the entities ids: a pool mesh that one of them
\* still references is no longer a child of the scene
sceneRemove(w, ids) ==
    [h \in 1 .. Len(w.scene) |->
        /\ w.scene[h]
        /\ ~\E id \in ids : /\ w.heap[id + 1].type = "projectile"
                            /\ w.heap[id + 1].mesh
                            /\ w.heap[id + 1].handle = h]

\* a flush that deletes each queued entity but keeps the repeats queued
processPendingRemovalsKeepsRepeats(w) ==
    [w EXCEPT !.store = @ \ Range(w.pend),
              !.pend = SelectSeq([i \in 1 .. Len(w.pend) |->
                                     IF \E j \in 1 .. i - 1 :
                                            w.pend[j] = w.pend[i]
                                     THEN w.pend[i] ELSE NULL],
                                 LAMBDA id : id # NULL),
              !.scene = sceneRemove(w, Range(w.pend))]

processPendingRemovals(w) ==
    [w EXCEPT !.store = @ \ Range(w.pend), !.pend = <<>>,
              !.scene = sceneRemove(w, Range(w.pend))]

worldClear(w) ==
    [w EXCEPT !.store = {}, !.pend = <<>>,
              !.scene = sceneRemove(w, w.store)]

\* World.entities is a Map: iteration follows insertion, i.e. id, order
getEntitiesByType(w, type) ==
    SelectSeq([i \in 1 .. Len(w.heap) |-> i - 1],
              LAMBDA id : /\ id \in w.store
                          /\ Ent(w, id).active
                          /\ Ent(w, id).type = type)

\* the components createPlant / spawnZombie / spawnSun attach; none is ever
\* removed, so they follow from the entity's type and kind
componentsOf(e) ==
    IF e.type = "zombie" THEN {"Transform", "Health", "Zombie", "Animation"}
    ELSE IF e.type = "sun" THEN {"Transform", "Collectable", "Animation"}
    ELSE IF e.type = "projectile" THEN {"Transform", "Projectile"}
    ELSE IF e.type = "plant"
         THEN {"Transform", "Health", "Plant"}
              \cup (IF e.kind = "PEASHOOTER" THEN {"Shooter", "Animation"}
                    ELSE IF e.kind = "SUNFLOWER"
                         THEN {"SunProducer", "Animation"}
                    ELSE IF e.kind = "WALLNUT" THEN {"Animation"}
                    ELSE IF e.kind = "CHERRYBOMB"
                         THEN {"Explosive", "Animation"}
                    ELSE {})
    ELSE {}

hasComponent(e, name) == name \in componentsOf(e)

getEntitiesWithComponentsAnyState(w, componentNames) ==
    SelectSeq([i \in 1 .. Len(w.heap) |-> i - 1],
              LAMBDA id : /\ id \in w.store
                          /\ \A k \in 1 .. Len(componentNames) :
                                 hasComponent(Ent(w, id), componentNames[k]))

getEntitiesWithComponents(w, componentNames) ==
    SelectSeq([i \in 1 .. Len(w.heap) |-> i - 1],
              LAMBDA id : /\ id \in w.store
                          /\ Ent(w, id).active
                          /\ \A k \in 1 .. Len(componentNames) :
                                 hasComponent(Ent(w, id), componentNames[k]))

\* a conversion that rounds to the nearest cell line
worldToGridColRounds(x) == (x - OFFSET_X + CELL_SIZE \div 2) \div CELL_SIZE

\* Math.floor((worldPos.x - OFFSET_X) / CELL_SIZE); \div rounds down
worldToGridCol(x) == (x - OFFSET_X) \div CELL_SIZE
worldToGridRow(z) == (z - OFFSET_Z) \div CELL_SIZE

gridToWorldX(col) == OFFSET_X + col * CELL_SIZE + (CELL_SIZE \div 2)
gridToWorldZ(row) == OFFSET_Z + row * CELL_SIZE + (CELL_SIZE \div 2)

getPlantsInRow(g, row) ==
    IF row < 0 \/ row >= ROWS THEN <<>>
    ELSE SelectSeq([i \in 1 .. COLS |-> [col |-> i - 1,
                                         entity |-> g[<<row, i - 1>>].entity]],
                   LAMBDA p : /\ g[<<row, p.col>>].occupied
                              /\ p.entity # NULL)

(***************************************************************************)
(* CombatSystem: melee damage, explosions, deaths                          *)
(***************************************************************************)
animateDeath(w, id) ==
    [w EXCEPT !.anims = Append(@, [kind |-> "death", ent |-> id,
                                   left |-> DEATH_ANIM_MS])]

\* the grid release of a dying plant; counts the release on the entity
\* that removePlant hands back
releaseCell(w, row, col) ==
    LET r == removePlant(w.grid, row, col)
        w1 == [w EXCEPT !.grid = r.grid]
    IN IF r.ret = NULL THEN w1
       ELSE [w1 EXCEPT !.heap[r.ret + 1].released = @ + 1]

killPlantNoRelease(w, p) ==
    animateDeath([w EXCEPT !.heap[p + 1].deathRuns = @ + 1], p)

\* "Remove from grid": the cell is looked up by the plant's identity
releasePlant(w, p) ==
    LET row == getPlantRow(w.grid, p)
        col == getPlantColumn(w.grid, p)
    IN IF row # -1 /\ col # -1 THEN releaseCell(w, row, col) ELSE w

killPlant(w, p) ==
    animateDeath(releasePlant([w EXCEPT !.heap[p + 1].deathRuns = @ + 1], p),
                 p)

damagePlant(w, p, damage) ==
    LET before == Ent(w, p).hp
        w1 == [w EXCEPT !.heap[p + 1].hp = @ - damage,
                        !.heap[p + 1].lateHits =
                            IF before <= 0 THEN @ + 1 ELSE @]
    IN IF before - damage <= 0 THEN killPlant(w1, p) ELSE w1

onZombieKill(w, z, amount) ==
    [w EXCEPT !.sun = addSun(@, amount).sun, !.heap[z + 1].bonus = @ + 1]

killZombie(w, z) ==
    LET w1 == [w EXCEPT !.heap[z + 1].zstate = "die",
                        !.heap[z + 1].deathRuns = @ + 1]
        w2 == onZombieKill(w1, z, KILL_BONUS)
    IN removeEntity(destroy(w2, z), z)

damageZombie(w, z, damage) ==
    LET before == Ent(w, z).hp
        w1 == [w EXCEPT !.heap[z + 1].hp = @ - damage,
                        !.heap[z + 1].lateHits =
                            IF before <= 0 THEN @ + 1 ELSE @]
    IN IF before - damage <= 0 THEN killZombie(w1, z) ELSE w1

InRadius(w, p, z) ==
    LET dx == Ent(w, p).x - Ent(w, z).x
        dz == Ent(w, p).z - Ent(w, z).z
        r == (PLANTS.CHERRYBOMB.explosionRadius * CELL_SIZE) \div 1000
    IN dx * dx + dz * dz <= r * r

\* history: the damage is counted on the exploding plant
blast(w, p, z) ==
    damageZombie([w EXCEPT !.heap[p + 1].blasted = @ + 1], z,
                 PLANTS.CHERRYBOMB.explosionDamage)

\* an explosion that reaches every active zombie
RECURSIVE explodeLoopNoRadius(_, _, _)
explodeLoopNoRadius(w, p, zs) ==
    IF zs = <<>> THEN w
    ELSE explodeLoopNoRadius(IF Ent(w, Head(zs)).active
                             THEN blast(w, p, Head(zs)) ELSE w,
                             p, Tail(zs))

RECURSIVE explodeLoop(_, _, _)
explodeLoop(w, p, zs) ==
    IF zs = <<>> THEN w
    ELSE LET z == Head(zs)
             w1 == IF Ent(w, z).active /\ InRadius(w, p, z)
                   THEN blast(w, p, z)
                   ELSE w
         IN explodeLoop(w1, p, Tail(zs))

\* the stored active zombies within the explosion radius of plant p
ZombiesInReach(w, p) ==
    {z \in w.store :
        /\ Ent(w, z).type = "zombie"
        /\ Ent(w, z).active
        /\ (Ent(w, p).x - Ent(w, z).x) * (Ent(w, p).x - Ent(w, z).x)
             + (Ent(w, p).z - Ent(w, z).z) * (Ent(w, p).z - Ent(w, z).z)
               <= ((PLANTS.CHERRYBOMB.explosionRadius * CELL_SIZE) \div 1000)
                  * ((PLANTS.CHERRYBOMB.explosionRadius * CELL_SIZE)
                         \div 1000)}

\* "explosive.exploded = true"; history: the explosion is counted, with the
\* timer it happened at and the number of zombies within reach
setExploded(w, p) ==
    [w EXCEPT !.heap[p + 1].exploded = TRUE,
              !.heap[p + 1].explosions = @ + 1,
              !.heap[p + 1].blastTimer = Ent(w, p).timer,
              !.heap[p + 1].seen = Cardinality(ZombiesInReach(w, p))]

explodeNoRelease(w, p, zombies) ==
    LET w1 == setExploded(w, p)
        w2 == explodeLoop(w1, p, zombies)
    IN removeEntity(destroy(w2, p), p)

explode(w, p, zombies) ==
    LET w1 == setExploded(w, p)
        w2 == releasePlant(explodeLoop(w1, p, zombies), p)
    IN removeEntity(destroy(w2, p), p)

RECURSIVE explosivesLoop(_, _, _, _)
explosivesLoop(w, ps, zombies, dt) ==
    IF ps = <<>> THEN w
    ELSE LET p == Head(ps)
             e == Ent(w, p)
             w1 == IF ~e.active \/ e.kind # "CHERRYBOMB" THEN w
                   ELSE LET wt == [w EXCEPT !.heap[p + 1].timer = @ + dt]
                        IN IF e.timer + dt >= EXPLOSIVE_DELAY /\ ~e.exploded
                           THEN explode(wt, p, zombies)
                           ELSE wt
         IN explosivesLoop(w1, Tail(ps), zombies, dt)

updateExplosives(w, dt) ==
    explosivesLoop(w, getEntitiesByType(w, "plant"),
                   getEntitiesByType(w, "zombie"), dt)

(***************************************************************************)
(* CombatSystem: the projectile pool, shooters and projectiles             *)
(***************************************************************************)
initializePool == [i \in 1 .. maxProjectiles |-> FALSE]

\* ... and each mesh is added to the scene
initializeScene == [i \in 1 .. maxProjectiles |-> TRUE]

\* a pool that hands out its first mesh whether or not it is free
firstFreeIgnoresVisible(pool) == 1

\* the handle getProjectileFromPool returns: the first mesh that is not
\* visible, or NULL
firstFree(pool) ==
    IF \A i \in 1 .. Len(pool) : pool[i] THEN NULL
    ELSE CHOOSE i \in 1 .. Len(pool) :
             ~pool[i] /\ \A j \in 1 .. i - 1 : pool[j]

returnProjectileToPool(w, h) == [w EXCEPT !.pool[h] = FALSE]

\* a target test that does not look at the row
hasTargetAnyRow(w, p, zombies) ==
    \E k \in 1 .. Len(zombies) :
        /\ Ent(w, zombies[k]).active
        /\ Ent(w, zombies[k]).x > Ent(w, p).x

\* "zombies.some(...)": an active zombie of the plant's row further right
hasTarget(w, p, zombies) ==
    \E k \in 1 .. Len(zombies) :
        /\ Ent(w, zombies[k]).active
        /\ Ent(w, zombies[k]).row = getPlantRow(w.grid, p)
        /\ Ent(w, zombies[k]).x > Ent(w, p).x

\* the projectile entity of fireProjectile, on handle h; history: owner,
\* born and row are the shooter, the time and the shooter's row
newProjectile(w, p, h) ==
    [Entity("projectile") EXCEPT
        !.mesh = TRUE, !.x = Ent(w, p).x + MUZZLE_OFFSET, !.z = Ent(w, p).z,
        !.damage = PLANTS.PEASHOOTER.damage, !.handle = h, !.owner = p,
        !.born = w.elapsed, !.row = getPlantRow(w.grid, p)]

\* history: the shot is noted on the plant (the time of its last shot and
\* the number of shots at that time), counted as blind when no zombie was
\* in the lane ahead of it, and as off lane when no zombie of the game was
\* in the plant's row
countShot(w, p, zombies) ==
    [w EXCEPT !.heap[p + 1].firedAt = w.elapsed,
              !.heap[p + 1].volley =
                  IF Ent(w, p).firedAt = w.elapsed THEN @ + 1 ELSE 1,
              !.heap[p + 1].blind =
                  IF hasTarget(w, p, zombies) THEN @ ELSE @ + 1,
              !.heap[p + 1].offLane =
                  IF \E z \in w.store :
                         /\ Ent(w, z).type = "zombie"
                         /\ Ent(w, z).active
                         /\ Ent(w, z).row = getPlantRow(w.grid, p)
                  THEN @ ELSE @ + 1]

fireProjectile(w, p, zombies) ==
    IF firstFree(w.pool) = NULL THEN w
    ELSE createEntity([countShot(w, p, zombies)
                          EXCEPT !.pool[firstFree(w.pool)] = TRUE],
                      newProjectile(w, p, firstFree(w.pool)))

\* the part of the loop body after "if (row === -1) continue"
shootIfDue(w, p, zombies) ==
    IF hasTarget(w, p, zombies)
       /\ w.elapsed - Ent(w, p).lastShot >= PLANTS.PEASHOOTER.fireRate
    THEN [fireProjectile(w, p, zombies)
             EXCEPT !.heap[p + 1].lastShot = w.elapsed]
    ELSE w

RECURSIVE shootersLoop(_, _, _)
shootersLoop(w, ps, zombies) ==
    IF ps = <<>> THEN w
    ELSE IF ~Ent(w, Head(ps)).active
            \/ ~hasComponent(Ent(w, Head(ps)), "Shooter")
            \/ getPlantRow(w.grid, Head(ps)) = -1
         THEN shootersLoop(w, Tail(ps), zombies)
         ELSE shootersLoop(shootIfDue(w, Head(ps), zombies), Tail(ps),
                           zombies)

updateShooters(w) ==
    shootersLoop(w, getEntitiesByType(w, "plant"),
                 getEntitiesByType(w, "zombie"))

removeProjectile(w, pr) ==
    removeEntity(destroy(returnProjectileToPool(w, Ent(w, pr).handle), pr),
                 pr)

Hits(w, pr, z) ==
    /\ Ent(w, z).active
    /\ (Ent(w, pr).x - Ent(w, z).x) * (Ent(w, pr).x - Ent(w, z).x)
         + (Ent(w, pr).z - Ent(w, z).z) * (Ent(w, pr).z - Ent(w, z).z)
           < HIT_RADIUS * HIT_RADIUS

\* "Hit!": damage, then removal; the hit is counted on the projectile, and
\* counted as stray when the zombie's row is not the shooter's
hit(w, pr, z) ==
    removeProjectile(
        damageZombie([w EXCEPT !.heap[pr + 1].hits = @ + 1,
                               !.heap[pr + 1].strayHits =
                                   IF Ent(w, z).row = Ent(w, pr).row
                                   THEN @ ELSE @ + 1],
                     z, Ent(w, pr).damage), pr)

\* a collision loop that goes on after a hit
RECURSIVE collideNoBreak(_, _, _)
collideNoBreak(w, pr, zs) ==
    IF zs = <<>> THEN w
    ELSE IF Hits(w, pr, Head(zs))
         THEN collideNoBreak(hit(w, pr, Head(zs)), pr, Tail(zs))
    ELSE collideNoBreak(w, pr, Tail(zs))

\* the collision loop, left at the first hit
RECURSIVE collide(_, _, _)
collide(w, pr, zs) ==
    IF zs = <<>> THEN w
    ELSE IF Hits(w, pr, Head(zs)) THEN hit(w, pr, Head(zs))
    ELSE collide(w, pr, Tail(zs))

\* the loop body after the move
boundsThenCollide(w, pr, zombies) ==
    IF Ent(w, pr).x > PROJECTILE_BOUND THEN removeProjectile(w, pr)
    ELSE collide(w, pr, zombies)

moveProjectile(w, pr, dt) ==
    [w EXCEPT !.heap[pr + 1].x = @ + (PROJECTILE_SPEED * dt) \div 1000]

RECURSIVE projectilesLoop(_, _, _, _)
projectilesLoop(w, prs, zombies, dt) ==
    IF prs = <<>> THEN w
    ELSE IF ~Ent(w, Head(prs)).active
         THEN projectilesLoop(w, Tail(prs), zombies, dt)
         ELSE projectilesLoop(boundsThenCollide(moveProjectile(w, Head(prs), dt),
                                                Head(prs), zombies),
                              Tail(prs), zombies, dt)

updateProjectiles(w, dt) ==
    projectilesLoop(w, getEntitiesByType(w, "projectile"),
                    getEntitiesByType(w, "zombie"), dt)

\* CombatSystem.update
combatSystemUpdate(w, dt) ==
    updateExplosives(updateProjectiles(updateShooters(w), dt), dt)

(***************************************************************************)
(* ZombieAI                                                                *)
(***************************************************************************)
\* a block test for a thin plant: a band narrower than one stride
BlocksThin(w, z, p) ==
    LET x == Ent(w, z).x
        px == gridToWorldX(p.col)
    IN /\ Ent(w, p.entity).active
       /\ Abs(x - px) < BLOCK_REACH \div 6
       /\ x > px - BLOCK_BEHIND \div 4

\* "Math.abs(transform.x - plantPos.x) < 0.6 && transform.x > plantPos.x - 0.4"
Blocks(w, z, p) ==
    LET x == Ent(w, z).x
        px == gridToWorldX(p.col)
    IN /\ Ent(w, p.entity).active
       /\ Abs(x - px) < BLOCK_REACH
       /\ x > px - BLOCK_BEHIND

blockedByPlant(w, z) ==
    LET ps == SelectSeq(getPlantsInRow(w.grid, Ent(w, z).row),
                        LAMBDA p : Blocks(w, z, p))
    IN IF ps = <<>> THEN NULL ELSE Head(ps).entity

\* a walk that moves one fixed stride per tick, whatever the tick's length
handleWalkStatePerTick(w, z, dt) ==
    LET e == Ent(w, z)
        b == blockedByPlant(w, z)
        nx == e.x - (ZOMBIES[e.kind].speed * MAX_DELTA) \div 1000
    IN IF b # NULL /\ Ent(w, b).active
       THEN [w EXCEPT !.heap[z + 1].zstate = "attack",
                      !.heap[z + 1].target = b,
                      !.heap[z + 1].lastAttack = w.elapsed]
       ELSE [w EXCEPT !.heap[z + 1].x = nx,
                      !.heap[z + 1].reachedHouse =
                          IF nx < OFFSET_X - HOUSE_MARGIN THEN TRUE ELSE @]

handleWalkState(w, z, dt) ==
    LET e == Ent(w, z)
        b == blockedByPlant(w, z)
        nx == e.x - (ZOMBIES[e.kind].speed * dt) \div 1000
    IN IF b # NULL /\ Ent(w, b).active
       THEN [w EXCEPT !.heap[z + 1].zstate = "attack",
                      !.heap[z + 1].target = b,
                      !.heap[z + 1].lastAttack = w.elapsed,
                      !.heap[z + 1].blockedAt = w.elapsed]
       ELSE [w EXCEPT !.heap[z + 1].x = nx,
                      !.heap[z + 1].reachedHouse =
                          IF nx < OFFSET_X - HOUSE_MARGIN THEN TRUE ELSE @]

toWalk(w, z) ==
    [w EXCEPT !.heap[z + 1].zstate = "walk", !.heap[z + 1].target = NULL]

\* "if (!target.active)" after the bite
afterBite(w, z, t) == IF ~Ent(w, t).active THEN toWalk(w, z) ELSE w

\* "Deal damage"; history: the bite is counted on the zombie, with its time
bite(w, z, t) ==
    [damagePlant(w, t, ZOMBIES[Ent(w, z).kind].damage)
        EXCEPT !.heap[z + 1].lastAttack = w.elapsed,
               !.heap[z + 1].bites = @ + 1,
               !.heap[z + 1].biteAt = w.elapsed]

\* an attack that bites in every tick
handleAttackStateEveryTick(w, z) ==
    LET e == Ent(w, z)
        t == e.target
    IN IF t = NULL \/ ~Ent(w, t).active THEN toWalk(w, z)
       ELSE afterBite(bite(w, z, t), z, t)

handleAttackState(w, z) ==
    LET e == Ent(w, z)
        t == e.target
    IN IF t = NULL \/ ~Ent(w, t).active THEN toWalk(w, z)
       ELSE IF w.elapsed - e.lastAttack >= ZOMBIES[e.kind].attackSpeed
            THEN afterBite(bite(w, z, t), z, t)
            ELSE afterBite(w, z, t)

\* a switch in which 'die' falls through to the default branch
RECURSIVE zombieLoopResetsDying(_, _, _)
zombieLoopResetsDying(w, zs, dt) ==
    IF zs = <<>> THEN w
    ELSE LET z == Head(zs)
             e == Ent(w, z)
             w1 == IF ~e.active THEN w
                   ELSE IF e.zstate = "walk" THEN handleWalkState(w, z, dt)
                   ELSE IF e.zstate = "attack" THEN handleAttackState(w, z)
                   ELSE [w EXCEPT !.heap[z + 1].zstate = "walk"]
         IN zombieLoopResetsDying(w1, Tail(zs), dt)

\* the switch on zombieData.state: 'die' is left to the combat system, an
\* unknown state is reset to 'walk'
RECURSIVE zombieLoop(_, _, _)
zombieLoop(w, zs, dt) ==
    IF zs = <<>> THEN w
    ELSE LET z == Head(zs)
             e == Ent(w, z)
             w1 == IF ~e.active THEN w
                   ELSE IF e.zstate = "walk" THEN handleWalkState(w, z, dt)
                   ELSE IF e.zstate = "attack" THEN handleAttackState(w, z)
                   ELSE IF e.zstate = "die" THEN w
                   ELSE [w EXCEPT !.heap[z + 1].zstate = "walk"]
         IN zombieLoop(w1, Tail(zs), dt)

zombieAIUpdate(w, dt) == zombieLoop(w, getEntitiesByType(w, "zombie"), dt)

hasZombieReachedHouse(w) ==
    \E z \in Range(getEntitiesByType(w, "zombie")) : Ent(w, z).reachedHouse

(***************************************************************************)
(* SunSystem: sun entities                                                 *)
(***************************************************************************)
spawnSun(w, value) ==
    createEntity(w, [Entity("sun") EXCEPT !.mesh = TRUE, !.value = value])

spawnNaturalSun(w) == spawnSun(w, NATURAL_SUN_VALUE)

removeSun(w, s) ==
    removeEntity(destroy([w EXCEPT !.heap[s + 1].mesh = FALSE], s), s)

RECURSIVE sunflowerLoop(_, _)
sunflowerLoop(w, ps) ==
    IF ps = <<>> THEN w
    ELSE LET p == Head(ps)
             e == Ent(w, p)
             w1 == IF ~e.active \/ e.kind # "SUNFLOWER" THEN w
                   ELSE IF w.elapsed - e.lastProduced
                               >= PLANTS.SUNFLOWER.sunInterval
                   THEN [spawnSun(w, PLANTS.SUNFLOWER.sunValue)
                            EXCEPT !.heap[p + 1].lastProduced = w.elapsed]
                   ELSE w
         IN sunflowerLoop(w1, Tail(ps))

updateSunflowers(w) == sunflowerLoop(w, getEntitiesByType(w, "plant"))

RECURSIVE sunsLoop(_, _, _)
sunsLoop(w, ss, dt) ==
    IF ss = <<>> THEN w
    ELSE LET s == Head(ss)
             e == Ent(w, s)
             w1 == IF ~e.active THEN w
                   ELSE LET wt == [w EXCEPT !.heap[s + 1].animTime = @ + dt]
                        IN IF e.animTime + dt > SUN_DECAY /\ ~e.collected
                           THEN removeSun(wt, s)
                           ELSE wt
         IN sunsLoop(w1, Tail(ss), dt)

updateSuns(w, dt) == sunsLoop(w, getEntitiesByType(w, "sun"), dt)

sunSystemUpdate(w, dt) ==
    LET w1 == IF w.elapsed - w.lastNat >= NATURAL_SPAWN_INTERVAL
              THEN [spawnNaturalSun(w) EXCEPT !.lastNat = w.elapsed]
              ELSE w
    IN updateSuns(updateSunflowers(w1), dt)

collectSun(w, s) ==
    IF Ent(w, s).collected THEN w
    ELSE LET w1 == [w EXCEPT !.heap[s + 1].collected = TRUE,
                             !.sun = addSun(@, Ent(w, s).value).sun]
         IN [w1 EXCEPT !.anims = Append(@, [kind |-> "collect", ent |-> s,
                                            left |-> COLLECT_ANIM_MS])]

\* the suns a click can land on: tryCollectSun takes the first active,
\* uncollected sun within reach of the pointer
Collectable(w) ==
    {s \in Range(getEntitiesByType(w, "sun")) : ~Ent(w, s).collected}

RECURSIVE destroyAll(_, _)
destroyAll(w, ids) ==
    IF ids = <<>> THEN w ELSE destroyAll(destroy(w, Head(ids)), Tail(ids))

sunSystemReset(w) ==
    destroyAll([w EXCEPT !.sun = sunReset.sun, !.lastNat = 0],
               getEntitiesByType(w, "sun"))

\* AnimationSystem.update advances Animation.time of every stored entity
\* that has a mesh; only a sun's Animation.time is read by the simulation
RECURSIVE animLoop(_, _, _)
animLoop(w, ids, dt) ==
    IF ids = <<>> THEN w
    ELSE LET s == Head(ids)
             w1 == IF s \in w.store /\ Ent(w, s).type = "sun"
                       /\ Ent(w, s).mesh
                   THEN [w EXCEPT !.heap[s + 1].animTime = @ + dt]
                   ELSE w
         IN animLoop(w1, Tail(ids), dt)

animationSystemUpdate(w, dt) ==
    animLoop(w, [i \in 1 .. Len(w.heap) |-> i - 1], dt)

(***************************************************************************)
(* WaveManager.  wm.clock is performance.now() - waveStartTime; it is read *)
(* only while a wave is active and only compared with the schedule, so it  *)
(* stops at the last scheduled time.                                       *)
(***************************************************************************)
WaveManagerReset ==
    [currentWave |-> 0, waveActive |-> FALSE, spawnTimers |-> <<>>,
     zombiesSpawned |-> 0, totalZombiesInWave |-> 0,
     allWavesComplete |-> FALSE, clock |-> 0, played |-> 0]

GroupEntries(g, delay) ==
    [i \in 1 .. g.count |->
        [type |-> g.type, time |-> delay + (i - 1) * g.interval,
         spawned |-> FALSE]]

RECURSIVE AllEntries(_, _)
AllEntries(groups, delay) ==
    IF groups = <<>> THEN <<>>
    ELSE GroupEntries(Head(groups), delay) \o AllEntries(Tail(groups), delay)

RECURSIVE insertByTime(_, _)
insertByTime(s, e) ==
    IF s = <<>> THEN <<e>>
    ELSE IF Head(s).time <= e.time
         THEN <<Head(s)>> \o insertByTime(Tail(s), e)
         ELSE <<e>> \o s

\* the schedule left in the order the groups were pushed
noSort(s) == s

RECURSIVE sortByTime(_)
sortByTime(s) ==
    IF s = <<>> THEN <<>>
    ELSE insertByTime(sortByTime(SubSeq(s, 1, Len(s) - 1)), s[Len(s)])

RECURSIVE SumCounts(_)
SumCounts(groups) ==
    IF groups = <<>> THEN 0 ELSE Head(groups).count + SumCounts(Tail(groups))

\* the part of startWave that follows the table lookup
buildSchedule(m, waveData) ==
    [m EXCEPT !.waveActive = TRUE,
              !.clock = 0,
              !.played = 0,
              !.zombiesSpawned = 0,
              !.totalZombiesInWave = SumCounts(waveData.zombies),
              !.spawnTimers =
                  sortByTime(AllEntries(waveData.zombies, waveData.delay))]

nextWaveNumber(m, waveNumber) ==
    IF waveNumber # NULL THEN waveNumber ELSE m.currentWave + 1

\* the value startWave returns
startWaveRet(m, waveNumber) == nextWaveNumber(m, waveNumber) <= Len(WAVES)

startWaveNoFlag(m, waveNumber) ==
    IF nextWaveNumber(m, waveNumber) > Len(WAVES)
    THEN [m EXCEPT !.currentWave = nextWaveNumber(m, waveNumber)]
    ELSE buildSchedule([m EXCEPT
                           !.currentWave = nextWaveNumber(m, waveNumber)],
                       WAVES[nextWaveNumber(m, waveNumber)])

\* ... and the state it leaves
startWave(m, waveNumber) ==
    IF nextWaveNumber(m, waveNumber) > Len(WAVES)
    THEN [m EXCEPT !.currentWave = nextWaveNumber(m, waveNumber),
                   !.allWavesComplete = TRUE]
    ELSE buildSchedule([m EXCEPT
                           !.currentWave = nextWaveNumber(m, waveNumber)],
                       WAVES[nextWaveNumber(m, waveNumber)])

spawnX == OFFSET_X + COLS * CELL_SIZE + SPAWN_MARGIN

spawnZombie(w, type, row, jitter) ==
    createEntity(w, [Entity("zombie") EXCEPT
                        !.mesh = TRUE, !.kind = type, !.row = row,
                        !.x = spawnX + jitter, !.z = gridToWorldZ(row),
                        !.hp = ZOMBIES[type].health, !.zstate = "walk"])

IsDue(m, i) == ~m.spawnTimers[i].spawned /\ m.clock >= m.spawnTimers[i].time

RECURSIVE spawnLoop(_, _, _)
spawnLoop(w, i, ch) ==
    IF i > Len(w.wm.spawnTimers) THEN w
    ELSE IF IsDue(w.wm, i)
         THEN spawnLoop([spawnZombie(w, w.wm.spawnTimers[i].type,
                                     Head(ch).row, Head(ch).jitter)
                            EXCEPT !.wm.spawnTimers[i].spawned = TRUE,
                                   !.wm.zombiesSpawned = @ + 1],
                        i + 1, Tail(ch))
         ELSE spawnLoop(w, i + 1, ch)

waveManagerUpdate(w, ch) ==
    IF ~w.wm.waveActive \/ w.wm.allWavesComplete THEN w
    ELSE spawnLoop(w, 1, ch)

zombiesRemaining(w) == Len(getEntitiesByType(w, "zombie"))

isWaveCompleteIgnoresZombies(w) ==
    w.wm.waveActive /\ w.wm.zombiesSpawned >= w.wm.totalZombiesInWave

\* the value isWaveComplete() returns
isWaveCompleteRet(w) ==
    /\ w.wm.waveActive
    /\ w.wm.zombiesSpawned >= w.wm.totalZombiesInWave
    /\ zombiesRemaining(w) = 0

isWaveCompleteKeepsActive(w) == w

\* ... and the state it leaves
isWaveComplete(w) ==
    IF isWaveCompleteRet(w) THEN [w EXCEPT !.wm.waveActive = FALSE] ELSE w

hasMoreWaves(m) == m.currentWave < Len(WAVES)

isAllWavesCompleteIgnoresFlag(w) == zombiesRemaining(w) = 0

isAllWavesComplete(w) == w.wm.allWavesComplete /\ zombiesRemaining(w) = 0

(***************************************************************************)
(* Game: placement, per-frame update, sessions                             *)
(***************************************************************************)
HistInit ==
    [sessions |-> 0, idle |-> 0, pauses |-> 0, waveComplete |-> FALSE,
     order |-> <<>>]

\* the program state as one record
W ==
    [sun |-> sunAmount, grid |-> grid, heap |-> heap, store |-> store,
     pend |-> pendingRemovals, wm |-> wm, timers |-> timers,
     anims |-> anims, state |-> state, ts |-> timeScale,
     elapsed |-> elapsedTime, lastNat |-> lastNaturalSpawn, hist |-> hist,
     pool |-> projectilePool, scene |-> poolInScene, threw |-> FALSE]

CommitWorld(w) ==
    /\ sunAmount' = w.sun
    /\ grid' = w.grid
    /\ heap' = w.heap
    /\ store' = w.store
    /\ pendingRemovals' = w.pend
    /\ wm' = w.wm
    /\ timers' = w.timers
    /\ anims' = w.anims
    /\ state' = w.state
    /\ timeScale' = w.ts
    /\ elapsedTime' = w.elapsed
    /\ lastNaturalSpawn' = w.lastNat
    /\ hist' = w.hist
    /\ projectilePool' = w.pool
    /\ poolInScene' = w.scene

Commit(w) ==
    CommitWorld(w) /\ UNCHANGED <<ledgerLog, gridLog, waveLog, probeVars>>

\* Entity objects nothing refers to any more are dropped by the runtime;
\* their slot keeps only the type and the history counters
Live(w) ==
    LET base == (w.store \cup Range(w.pend)
                 \cup {a.ent : a \in Range(w.anims)}
                 \cup {w.grid[c].entity : c \in Cells}) \ {NULL}
    IN (base \cup {Ent(w, id).target : id \in base}) \ {NULL}

Garbage(e) ==
    [Entity(e.type) EXCEPT !.active = FALSE, !.exploded = e.exploded,
                           !.released = e.released,
                           !.deathRuns = e.deathRuns,
                           !.lateHits = e.lateHits, !.bonus = e.bonus,
                           !.hits = e.hits, !.explosions = e.explosions,
                           !.blastTimer = e.blastTimer, !.seen = e.seen,
                           !.blasted = e.blasted, !.offLane = e.offLane,
                           !.strayHits = e.strayHits]

collectGarbage(w) ==
    [w EXCEPT !.heap = [i \in 1 .. Len(w.heap) |->
                           IF i - 1 \in Live(w) THEN w.heap[i]
                           ELSE Garbage(w.heap[i])]]

\* setTimeout; history: the session that armed the callback
setTimer(w, kind, delay) ==
    [w EXCEPT !.timers = Append(@, [kind |-> kind, left |-> delay,
                                    session |-> w.hist.sessions])]

createPlant(w, type, row, col) ==
    createEntity(w, [Entity("plant") EXCEPT
                        !.mesh = TRUE, !.kind = type,
                        !.x = gridToWorldX(col), !.z = gridToWorldZ(row),
                        !.hp = PLANTS[type].health])

\* a placement that pays before it looks at the cell
tryPlacePlantPaysFirst(w, row, col, type) ==
    IF type \notin DOMAIN PLANTS THEN w
    ELSE LET s == spendSun(w.sun, PLANTS[type].cost)
         IN IF ~s.ret THEN w
            ELSE IF ~isCellEmpty(w.grid, row, col)
                 THEN [w EXCEPT !.sun = s.sun]
            ELSE LET w1 == createPlant([w EXCEPT !.sun = s.sun],
                                       type, row, col)
                 IN [w1 EXCEPT !.grid =
                        placePlant(w1.grid, row, col, Len(w.heap)).grid]

tryPlacePlant(w, row, col, type) ==
    IF ~isCellEmpty(w.grid, row, col) THEN w
    ELSE IF type \notin DOMAIN PLANTS THEN w
    ELSE LET s == spendSun(w.sun, PLANTS[type].cost)
         IN IF ~s.ret THEN w
            ELSE LET w1 == createPlant([w EXCEPT !.sun = s.sun],
                                       type, row, col)
                 IN [w1 EXCEPT !.grid =
                        placePlant(w1.grid, row, col, Len(w.heap)).grid]

NoInput == [kind |-> "none", id |-> NULL, row |-> NULL, col |-> NULL,
            plant |-> "none"]

\* what the player can do before a frame: nothing, click a sun, or select
\* an affordable seed (UIManager.selectPlant) and click a lawn cell
Inputs ==
    {NoInput}
    \cup (IF state # "playing" THEN {}
          ELSE {[NoInput EXCEPT !.kind = "sun", !.id = s] :
                    s \in Collectable(W)}
               \cup {[NoInput EXCEPT !.kind = "place", !.row = c[1],
                                     !.col = c[2], !.plant = c[3]] :
                        c \in {d \in Lanes \X PlaceCols \X PlantInputs :
                                 canAfford(sunAmount, PLANTS[d[3]].cost)}})

handleInput(w, inp) ==
    IF w.state # "playing" THEN w
    ELSE IF inp.kind = "sun" THEN collectSun(w, inp.id)
    ELSE IF inp.kind = "place"
            /\ isValidCell(inp.row, inp.col)
            /\ isCellEmpty(w.grid, inp.row, inp.col)
         THEN tryPlacePlant(w, inp.row, inp.col, inp.plant)
    ELSE w

\* PlantSystem.update sweeps Lifetime components; createPlant attaches one
\* only when the plant's config has a lifetime, and no configured plant has
plantSystemUpdate(w, dt) == w

gameOver(w, won) ==
    [w EXCEPT !.state = IF won THEN "win" ELSE "lose", !.ts = 0]

checkGameEndNoLose(w) ==
    IF isAllWavesComplete(w) THEN gameOver(w, TRUE) ELSE w

checkGameEnd(w) ==
    IF hasZombieReachedHouse(w) THEN gameOver(w, FALSE)
    ELSE IF isAllWavesComplete(w) THEN gameOver(w, TRUE)
    ELSE w

\* history: the steps of the running animation frame, in the order taken
mark(w, step) == [w EXCEPT !.hist.order = Append(@, step)]

updateSystemsCombatFirst(w, dt, ch) ==
    LET w1 == waveManagerUpdate(mark(w, "wave"), ch)
        w2 == sunSystemUpdate(mark(w1, "sun"), dt)
        w3 == combatSystemUpdate(mark(w2, "combat"), dt)
        w4 == plantSystemUpdate(mark(zombieAIUpdate(mark(w3, "zombie"), dt),
                                     "plant"), dt)
    IN animationSystemUpdate(mark(w4, "anim"), dt)

\* the systems, in the order updateGame runs them
updateSystems(w, dt, ch) ==
    LET w1 == waveManagerUpdate(mark(w, "wave"), ch)
        w2 == sunSystemUpdate(mark(w1, "sun"), dt)
        w3 == zombieAIUpdate(mark(w2, "zombie"), dt)
        w4 == plantSystemUpdate(mark(combatSystemUpdate(mark(w3, "combat"),
                                                        dt),
                                     "plant"), dt)
    IN animationSystemUpdate(mark(w4, "anim"), dt)

\* the body of "if (this.waveManager.isWaveComplete())"
onWaveComplete(w) ==
    IF hasMoreWaves(w.wm) THEN setTimer(w, "next", NEXT_WAVE_DELAY)
    ELSE IF w.wm.allWavesComplete
         THEN [w EXCEPT !.threw = TRUE]  \* GAME_CONFIG.LEVELS
    ELSE w

checkWaveComplete(w) ==
    IF isWaveCompleteRet(w)
    THEN onWaveComplete([isWaveComplete(w)
                            EXCEPT !.hist.waveComplete = TRUE])
    ELSE [isWaveComplete(w) EXCEPT !.hist.waveComplete = FALSE]

\* an exception in the wave-complete branch skips checkGameEnd
endUpdate(w) == IF w.threw THEN w ELSE checkGameEnd(w)

updateGame(w, dt, ch) ==
    endUpdate(checkWaveComplete(updateSystems(w, dt, ch)))

lastTime(m) ==
    IF m.spawnTimers = <<>> THEN 0
    ELSE m.spawnTimers[Len(m.spawnTimers)].time

\* real time passes: setTimeout delays, animation clocks, the wave clock
ageReal(w) ==
    [w EXCEPT
        !.timers = [i \in 1 .. Len(w.timers) |->
                       [w.timers[i] EXCEPT !.left = Max(0, @ - FrameMs)]],
        !.anims = [i \in 1 .. Len(w.anims) |->
                      [w.anims[i] EXCEPT !.left = Max(0, @ - FrameMs)]],
        !.wm.clock = IF w.wm.waveActive
                     THEN Min(@ + FrameMs, Max(@, lastTime(w.wm)))
                     ELSE @,
        !.wm.played = IF w.wm.waveActive /\ w.state = "playing"
                      THEN Min(@ + FrameMs, Max(@, lastTime(w.wm)))
                      ELSE @]

\* the requestAnimationFrame callbacks of animateDeath / animateSunCollect
\* run after gameLoop in the same frame
RECURSIVE fireAnims(_, _)
fireAnims(w, as) ==
    IF as = <<>> THEN w
    ELSE LET a == Head(as)
             w1 == IF a.left > 0 THEN [w EXCEPT !.anims = Append(@, a)]
                   ELSE IF a.kind = "death"
                        THEN removeEntity(destroy(w, a.ent), a.ent)
                   ELSE removeSun(w, a.ent)
         IN fireAnims(w1, Tail(as))

runAnims(w) == fireAnims([w EXCEPT !.anims = <<>>], w.anims)

tick(w) == Min(FrameMs, MAX_DELTA) * w.ts

\* "if (this.state === GAME_STATES.PLAYING) this.updateGame(deltaTime)"
updateIfPlaying(w, dt, ch) ==
    IF w.state = "playing" THEN updateGame(w, dt, ch) ELSE w

\* an exception in updateGame skips the rest of the frame
endLoop(w) ==
    IF w.threw THEN w ELSE processPendingRemovals(mark(w, "flush"))

gameLoop(w, inp, ch) ==
    LET dt == tick(w)
        w1 == handleInput([w EXCEPT !.elapsed = @ + dt], inp)
    IN endLoop(updateIfPlaying(w1, dt, ch))

DueCount(w) ==
    IF w.state # "playing" \/ ~w.wm.waveActive \/ w.wm.allWavesComplete
    THEN 0
    ELSE Cardinality({i \in 1 .. Len(w.wm.spawnTimers) : IsDue(w.wm, i)})

SpawnChoices == [row : Lanes, jitter : Jitters]

\* a frame in which no simulation time passes
Idle == state # "playing" \/ timeScale = 0

\* the frame is taken only inside the horizon and the entity bound
CommitFrame(w) ==
    /\ w.elapsed <= MaxElapsed
    /\ Len(w.heap) <= MaxEnt
    /\ Commit([w EXCEPT !.threw = FALSE])

\* the program state when the browser runs the next animation frame
FrameStart ==
    [ageReal(W) EXCEPT !.hist.waveComplete = FALSE, !.hist.order = <<>>]

\* one animation frame: gameLoop, then the animation callbacks
frame(w, inp, ch) == collectGarbage(runAnims(gameLoop(w, inp, ch)))

Frame(inp, ch) ==
    /\ hist.sessions > 0
    /\ Idle => hist.idle < MaxIdleFrames
    /\ \A i \in 1 .. Len(timers) : timers[i].left > 0
    /\ CommitFrame(frame([FrameStart EXCEPT
                              !.hist.idle = IF Idle THEN @ + 1 ELSE @],
                          inp, ch))

FrameStep ==
    \E inp \in Inputs :
        \E ch \in [1 .. DueCount(ageReal(W)) -> SpawnChoices] :
            Frame(inp, ch)

\* the callbacks without their state test
onTimerUnguarded(w, kind) ==
    IF kind = "first" THEN [w EXCEPT !.wm = startWave(@, 1)]
    ELSE IF ~w.wm.waveActive THEN [w EXCEPT !.wm = startWave(@, NULL)]
    ELSE w

\* the setTimeout callbacks of startGame ("first") and of updateGame's
\* wave-complete branch ("next")
onTimer(w, kind) ==
    IF kind = "first"
    THEN IF w.state = "playing" THEN [w EXCEPT !.wm = startWave(@, 1)] ELSE w
    ELSE IF w.state = "playing" /\ ~w.wm.waveActive
         THEN [w EXCEPT !.wm = startWave(@, NULL)]
         ELSE w

TimerFire(i) ==
    /\ timers[i].left = 0
    /\ LET t == timers[i]
           w0 == [W EXCEPT
                     !.timers = SubSeq(timers, 1, i - 1)
                                \o SubSeq(timers, i + 1, Len(timers)),
                     !.hist.waveComplete = FALSE]
       IN Commit(onTimer(w0, t.kind))

startGame(w) ==
    LET w1 == sunSystemReset([w EXCEPT !.state = "playing",
                                       !.grid = gridClear])
        w2 == worldClear([w1 EXCEPT !.wm = WaveManagerReset])
        w3 == [w2 EXCEPT !.elapsed = 0, !.grid = initializeGrid,
                         !.hist.sessions = @ + 1,
                         !.hist.waveComplete = FALSE]
    IN collectGarbage(setTimer(w3, "first", FIRST_WAVE_DELAY))

StartGame ==
    /\ state = "menu"
    /\ hist.sessions < MaxSessions
    /\ Commit(startGame(W))

pauseGame(w) ==
    [w EXCEPT !.state = "paused", !.ts = 0, !.hist.pauses = @ + 1,
              !.hist.waveComplete = FALSE]

PauseGame ==
    /\ state = "playing"
    /\ hist.pauses < MaxPauses
    /\ Commit(pauseGame(W))

ResumeGame ==
    /\ state = "paused"
    /\ Commit([W EXCEPT !.state = "playing", !.ts = 1,
                        !.hist.waveComplete = FALSE])

RestartGame ==
    /\ state \in {"paused", "win", "lose"}
    /\ hist.sessions < MaxSessions
    /\ Commit(startGame([worldClear(W) EXCEPT !.state = "loading",
                                              !.grid = initializeGrid]))

QuitToMenu ==
    /\ state \in {"paused", "win", "lose"}
    /\ Commit(collectGarbage(
           [worldClear(W) EXCEPT !.state = "menu", !.ts = 0,
                                 !.grid = gridClear,
                                 !.hist.waveComplete = FALSE]))

\* a record of one direct WaveManager call: the wave data in use, the value
\* returned, the manager before the call and the spawns fired so far
NoWave == [zombies |-> <<>>, delay |-> 0]

DirectorEntry(op, data, ret, before, fired) ==
    [op |-> op, data |-> data, ret |-> ret, before |-> before,
     fired |-> fired]

(***************************************************************************)
(* State after construction (Game.initialize)                              *)
(***************************************************************************)
LedgerInit == sunAmount = STARTING_AMOUNT /\ ledgerLog = <<>>

GridInit ==
    /\ grid = initializeGrid
    /\ gridLog = GridEntry("none", 0, 0, NULL, FALSE, initializeGrid)

GameInit ==
    /\ state = "menu"
    /\ timeScale = 1
    /\ elapsedTime = 0
    /\ lastNaturalSpawn = 0
    /\ heap = <<>>
    /\ store = {}
    /\ pendingRemovals = <<>>
    /\ wm = WaveManagerReset
    /\ timers = <<>>
    /\ anims = <<>>
    /\ hist = HistInit
    /\ waveLog = DirectorEntry("none", NoWave, FALSE, WaveManagerReset, <<>>)
    /\ projectilePool = initializePool
    /\ poolInScene = initializeScene

\* a record of one conversion: the position or cell handed in, the cell
\* worldToGrid gave and the position gridToWorld gave
CoordEntry(op, x, z, row, col, outX, outZ, outRow, outCol) ==
    [op |-> op, x |-> x, z |-> z, row |-> row, col |-> col,
     outX |-> outX, outZ |-> outZ, outRow |-> outRow, outCol |-> outCol]

\* the placement preview: selectedPlant, previewValid and the preview
\* mesh's visible flag; history: the last call, the cursor position it had
\* and what the validity ought to be after it
PreviewEntry(op, selected, valid, visible, x, z, expected) ==
    [op |-> op, selectedPlant |-> selected, previewValid |-> valid,
     visible |-> visible, x |-> x, z |-> z, expected |-> expected]

ProbeInit ==
    /\ coordLog = CoordEntry("none", 0, 0, NULL, NULL, 0, 0, NULL, NULL)
    /\ preview = PreviewEntry("none", "none", FALSE, FALSE, 0, 0, FALSE)

Init == LedgerInit /\ GridInit /\ GameInit /\ ProbeInit

(***************************************************************************)
(* The game: sessions, frames and timer callbacks                          *)
(***************************************************************************)
Next ==
    \/ StartGame
    \/ PauseGame
    \/ ResumeGame
    \/ RestartGame
    \/ QuitToMenu
    \/ \E i \in 1 .. Len(timers) : TimerFire(i)
    \/ FrameStep

Spec == Init /\ [][Next]_vars

(***************************************************************************)
(* The wave director over a whole session: the player does not touch the   *)
(* lawn, frames and timer callbacks run as in the game, and the defence is *)
(* abstracted to "some active zombie takes a lethal hit" (damageZombie).    *)
(***************************************************************************)
WaveSpawn == [row : {0}, jitter : {0}]

WaveCommit(w) ==
    /\ w.elapsed <= MaxWaveElapsed
    /\ Commit([w EXCEPT !.threw = FALSE])

\* the defence hits every zombie before it has walked MaxZombieWalk
Defended ==
    \A z \in Range(getEntitiesByType(W, "zombie")) :
        Ent(W, z).x > spawnX - MaxZombieWalk

WaveFrame ==
    /\ state = "playing"
    /\ Defended
    /\ \A i \in 1 .. Len(timers) : timers[i].left > 0
    /\ \E ch \in [1 .. DueCount(ageReal(W)) -> WaveSpawn] :
           WaveCommit(frame(FrameStart, NoInput, ch))

WaveTimer == \E i \in 1 .. Len(timers) : TimerFire(i)

WaveKill ==
    /\ state = "playing"
    /\ \E z \in Range(getEntitiesByType(W, "zombie")) :
           Commit(collectGarbage(damageZombie(W, z, Ent(W, z).hp)))

WaveNext == StartGame \/ WaveTimer \/ WaveFrame \/ WaveKill

SpecWaves == Init /\ [][WaveNext]_vars

(***************************************************************************)
(* An undefended lawn: the player does nothing and the zombies of the      *)
(* first wave walk to the house.                                           *)
(***************************************************************************)
WalkCommit(w) ==
    /\ w.elapsed <= MaxWalkElapsed
    /\ Commit([w EXCEPT !.threw = FALSE])

WalkFrame ==
    /\ state = "playing"
    /\ \A i \in 1 .. Len(timers) : timers[i].left > 0
    /\ \E ch \in [1 .. DueCount(ageReal(W)) -> SpawnChoices] :
           WalkCommit(frame(FrameStart, NoInput, ch))

WalkNext == StartGame \/ WaveTimer \/ WalkFrame

SpecWalk == Init /\ [][WalkNext]_vars

(***************************************************************************)
(* The wave director on its own: startWave on a wave entry drawn from a    *)
(* bounded set, startWave() along the configured table, and update() as    *)
(* the wave clock advances.                                                *)
(***************************************************************************)
GroupsIn ==
    [type : {"basic", "cone"}, count : 0 .. MaxCountIn,
     interval : {1000, 1500}]

WavesIn ==
    [zombies : UNION {[1 .. n -> GroupsIn] : n \in 1 .. MaxGroupsIn},
     delay : {0, 2000}]

ClockSteps == {500, 1000}

\* the schedule entries update() fires at this clock, in schedule order
dueEntries(m) ==
    SelectSeq([i \in 1 .. Len(m.spawnTimers) |-> i], LAMBDA i : IsDue(m, i))

\* the entries an update() call fired: unspawned before, spawned after
newlySpawned(m, n) ==
    SelectSeq([i \in 1 .. Len(m.spawnTimers) |-> i],
              LAMBDA i : ~m.spawnTimers[i].spawned /\ n.spawnTimers[i].spawned)

firedBetween(m, n) ==
    [k \in 1 .. Len(newlySpawned(m, n)) |->
        [type |-> m.spawnTimers[newlySpawned(m, n)[k]].type,
         time |-> m.spawnTimers[newlySpawned(m, n)[k]].time,
         at |-> n.clock]]

DStartWith(data) ==
    /\ waveLog.op = "none"
    /\ wm' = buildSchedule([wm EXCEPT !.currentWave = 1], data)
    /\ waveLog' = DirectorEntry("startWith", data, TRUE, wm, <<>>)
    /\ UNCHANGED <<ledgerVars, gridVars, state, timeScale, elapsedTime,
                   lastNaturalSpawn, heap, store, pendingRemovals, timers,
                   anims, hist, probeVars, projectilePool, poolInScene>>

DStartNext ==
    /\ waveLog.op # "startWith"
    /\ wm.currentWave <= Len(WAVES)
    /\ wm' = startWave(wm, NULL)
    /\ waveLog' = DirectorEntry("startWave",
                                IF startWaveRet(wm, NULL)
                                THEN WAVES[wm.currentWave + 1]
                                ELSE waveLog.data,
                                startWaveRet(wm, NULL), wm,
                                IF startWaveRet(wm, NULL) THEN <<>>
                                ELSE waveLog.fired)
    /\ UNCHANGED <<ledgerVars, gridVars, state, timeScale, elapsedTime,
                   lastNaturalSpawn, heap, store, pendingRemovals, timers,
                   anims, hist, probeVars, projectilePool, poolInScene>>

directorTick(w, step) == [w EXCEPT !.wm.clock = @ + step]

DUpdate(step) ==
    /\ wm.waveActive
    /\ wm.clock < lastTime(wm)
    /\ Len(heap) + Len(dueEntries(directorTick(W, step).wm))
           <= MaxDirectorEnt
    /\ \E ch \in [1 .. Len(dueEntries(directorTick(W, step).wm))
                      -> WaveSpawn] :
           CommitWorld(waveManagerUpdate(directorTick(W, step), ch))
    /\ waveLog' = DirectorEntry("update", waveLog.data, TRUE, wm,
                                waveLog.fired \o firedBetween(wm, wm'))
    /\ UNCHANGED <<ledgerLog, gridLog, probeVars>>

DirectorNext ==
    \/ \E data \in WavesIn : DStartWith(data)
    \/ DStartNext
    \/ \E step \in ClockSteps : DUpdate(step)

SpecDirector == Init /\ [][DirectorNext]_vars

(***************************************************************************)
(* A peashooter lane: the player may plant one peashooter in the lane,     *)
(* pause, resume and restart; frames and timer callbacks run as in the     *)
(* game.                                                                   *)
(***************************************************************************)
ShootCols == {COLS - 4, COLS - 1}

ShootInputs ==
    {NoInput}
    \cup (IF state # "playing"
             \/ ~canAfford(sunAmount, PLANTS.PEASHOOTER.cost)
          THEN {}
          ELSE {[NoInput EXCEPT !.kind = "place", !.row = 0, !.col = c,
                                !.plant = "PEASHOOTER"] : c \in ShootCols})

ShootCommit(w) ==
    /\ w.elapsed <= MaxShootElapsed
    /\ Commit([w EXCEPT !.threw = FALSE])

ShootFrame ==
    /\ hist.sessions > 0
    /\ Idle => hist.idle < MaxIdleFrames
    /\ \A i \in 1 .. Len(timers) : timers[i].left > 0
    /\ \E inp \in ShootInputs :
           \E ch \in [1 .. DueCount(ageReal(W)) -> WaveSpawn] :
               ShootCommit(frame([FrameStart EXCEPT
                                     !.hist.idle = IF Idle THEN @ + 1 ELSE @],
                                 inp, ch))

ShootPause ==
    /\ state = "playing"
    /\ hist.pauses < MaxShootPauses
    /\ Commit(pauseGame(W))

ShootNext ==
    \/ StartGame
    \/ WaveTimer
    \/ ShootFrame
    \/ ShootPause
    \/ ResumeGame
    \/ RestartGame

SpecShoot == Init /\ [][ShootNext]_vars

(***************************************************************************)
(* Two lanes: the zombies of the first wave come in row 0 or row 1 and the *)
(* player may plant one peashooter in row 0.                               *)
(***************************************************************************)
LaneSpawn == [row : {0, 1}, jitter : {0}]

LaneFrame ==
    /\ state = "playing"
    /\ \A i \in 1 .. Len(timers) : timers[i].left > 0
    /\ \E inp \in ShootInputs :
           \E ch \in [1 .. DueCount(ageReal(W)) -> LaneSpawn] :
               ShootCommit(frame(FrameStart, inp, ch))

LaneNext == StartGame \/ WaveTimer \/ LaneFrame

SpecLanes == Init /\ [][LaneNext]_vars

(***************************************************************************)
(* One zombie on an empty lawn, ticked with frame deltas of any mix.  The  *)
(* deltas are multiples of 5 ms, for which speed * dt is a whole number of *)
(* millimetres at every configured speed.                                  *)
(***************************************************************************)
StrideDts == {20, 50, MAX_DELTA}

StrideStart ==
    /\ state = "menu"
    /\ hist.sessions = 0
    /\ Commit(spawnZombie(startGame(W), "basic", 0, 0))

\* Time.tick, ZombieAI.update and checkGameEnd of one frame
StrideTick(dt) ==
    /\ state = "playing"
    /\ elapsedTime + dt <= MaxStrideElapsed
    /\ Commit(checkGameEnd(zombieAIUpdate([W EXCEPT !.elapsed = @ + dt], dt)))

StrideNext == StrideStart \/ \E dt \in StrideDts : StrideTick(dt)

SpecStride == Init /\ [][StrideNext]_vars

(***************************************************************************)
(* One zombie of any kind walking towards one plant, at any time scale the *)
(* clock accepts and with full or half frame deltas.                       *)
(***************************************************************************)
BlockKinds == DOMAIN ZOMBIES
BlockPlants == {"WALLNUT", "SUNFLOWER"}
BlockCols == {COLS - 1, COLS - 2}
BlockScales == {1, 2, 3, 4}
BlockRawDts == {MAX_DELTA \div 2, FrameMs}

\* Time.setTimeScale clamps the scale to [0, 3]
setTimeScale(scale) == Max(0, Min(scale, 3))

\* the deltaTime Time.tick returns: the raw delta clamped, times the scale
deltaTime(rawDelta, scale) == Min(rawDelta, MAX_DELTA) * scale

BlockStart(kind, col, plant) ==
    /\ state = "menu"
    /\ hist.sessions = 0
    /\ Commit(spawnZombie(tryPlacePlant(startGame(W), 0, col, plant),
                          kind, 0, 0))

BlockScale(scale) ==
    /\ state = "playing"
    /\ setTimeScale(scale) # timeScale
    /\ Commit([W EXCEPT !.ts = setTimeScale(scale)])

\* Time.tick, ZombieAI.update and checkGameEnd of one frame
BlockTick(rawDelta) ==
    /\ state = "playing"
    /\ elapsedTime + deltaTime(rawDelta, timeScale) <= MaxBlockElapsed
    /\ Commit(checkGameEnd(zombieAIUpdate(
           [W EXCEPT !.elapsed = @ + deltaTime(rawDelta, timeScale)],
           deltaTime(rawDelta, timeScale))))

BlockNext ==
    \/ \E kind \in BlockKinds, col \in BlockCols, plant \in BlockPlants :
           BlockStart(kind, col, plant)
    \/ \E scale \in BlockScales : BlockScale(scale)
    \/ \E rawDelta \in BlockRawDts : BlockTick(rawDelta)

SpecBlock == Init /\ [][BlockNext]_vars

(***************************************************************************)
(* The coordinate conversions on their own                                 *)
(***************************************************************************)
\* positions at, just inside and in the middle of every cell line, from
\* one cell outside the lawn to one cell outside on the other side
CellOffsets == {0, 1, CELL_SIZE \div 2 - 1, CELL_SIZE \div 2, CELL_SIZE - 1}
XsIn == {OFFSET_X + c * CELL_SIZE + d : c \in -1 .. COLS, d \in CellOffsets}
ZsIn == {OFFSET_Z + r * CELL_SIZE + d : r \in -1 .. ROWS, d \in CellOffsets}

\* gridToWorld(worldToGrid(p))
CWorldRoundTrip(x, z) ==
    /\ coordLog' = CoordEntry("world", x, z,
                              worldToGridRow(z), worldToGridCol(x),
                              gridToWorldX(worldToGridCol(x)),
                              gridToWorldZ(worldToGridRow(z)), NULL, NULL)
    /\ UNCHANGED <<ledgerVars, gridVars, state, timeScale, elapsedTime,
                   lastNaturalSpawn, heap, store, pendingRemovals, wm,
                   timers, anims, hist, waveLog, projectilePool, poolInScene,
                   preview>>

\* worldToGrid(gridToWorld(row, col))
CGridRoundTrip(row, col) ==
    /\ coordLog' = CoordEntry("grid", 0, 0, row, col,
                              gridToWorldX(col), gridToWorldZ(row),
                              worldToGridRow(gridToWorldZ(row)),
                              worldToGridCol(gridToWorldX(col)))
    /\ UNCHANGED <<ledgerVars, gridVars, state, timeScale, elapsedTime,
                   lastNaturalSpawn, heap, store, pendingRemovals, wm,
                   timers, anims, hist, waveLog, projectilePool, poolInScene,
                   preview>>

\* the conversions read no state: one call per run covers them
CoordNext ==
    /\ coordLog.op = "none"
    /\ \/ \E x \in XsIn, z \in ZsIn : CWorldRoundTrip(x, z)
       \/ \E row \in -1 .. ROWS, col \in -1 .. COLS : CGridRoundTrip(row, col)

SpecCoords == Init /\ [][CoordNext]_vars

(***************************************************************************)
(* The placement preview: the player selects and deselects a seed, moves   *)
(* the cursor, and cells are filled and freed.                             *)
(***************************************************************************)
\* null (no seed selected) is written "none"
PreviewTypesIn == {"none", "SUNFLOWER"}
PreviewXs == {gridToWorldX(0), gridToWorldX(1), gridToWorldX(COLS)}
PreviewZs == {gridToWorldZ(0), gridToWorldZ(ROWS)}

\* (selected defender type != null) AND isValidCell AND isCellEmpty for the
\* cell under the cursor
PreviewExpected(g, selected, x, z) ==
    /\ selected # "none"
    /\ isValidCell(worldToGridRow(z), worldToGridCol(x))
    /\ isCellEmpty(g, worldToGridRow(z), worldToGridCol(x))

setSelectedPlant(pv, plantType) ==
    [pv EXCEPT !.selectedPlant = plantType,
               !.visible = IF plantType = "none" THEN FALSE ELSE @]

updatePreview(pv, g, x, z) ==
    IF pv.selectedPlant = "none" THEN [pv EXCEPT !.visible = FALSE]
    ELSE IF isValidCell(worldToGridRow(z), worldToGridCol(x))
    THEN [pv EXCEPT !.visible = TRUE,
                    !.previewValid =
                        isCellEmpty(g, worldToGridRow(z), worldToGridCol(x))]
    ELSE [pv EXCEPT !.visible = FALSE, !.previewValid = FALSE]

PvSelect(plantType) ==
    /\ preview' = [setSelectedPlant(preview, plantType) EXCEPT
                      !.op = "select",
                      !.expected = PreviewExpected(grid, plantType,
                                                   preview.x, preview.z)]
    /\ UNCHANGED <<ledgerVars, gridVars, state, timeScale, elapsedTime,
                   lastNaturalSpawn, heap, store, pendingRemovals, wm,
                   timers, anims, hist, waveLog, projectilePool, poolInScene,
                   coordLog>>

PvUpdate(x, z) ==
    /\ preview' = [updatePreview(preview, grid, x, z) EXCEPT
                      !.op = "update", !.x = x, !.z = z,
                      !.expected = PreviewExpected(grid,
                                                   preview.selectedPlant,
                                                   x, z)]
    /\ UNCHANGED <<ledgerVars, gridVars, state, timeScale, elapsedTime,
                   lastNaturalSpawn, heap, store, pendingRemovals, wm,
                   timers, anims, hist, waveLog, projectilePool, poolInScene,
                   coordLog>>

PreviewNext ==
    \/ \E t \in PreviewTypesIn : PvSelect(t)
    \/ \E x \in PreviewXs, z \in PreviewZs : PvUpdate(x, z)
    \/ \E r \in GridRowsIn, c \in GridColsIn, e \in GridEnts :
            GPlacePlant(r, c, e)
    \/ \E r \in GridRowsIn, c \in GridColsIn : GRemovePlant(r, c)

SpecPreview == Init /\ [][PreviewNext]_vars

(***************************************************************************)
(* The ledger on its own: any sequence of ledger calls                     *)
(***************************************************************************)
LedgerNext ==
    \/ \E a \in AddAmounts : LAddSun(a)
    \/ \E a \in SpendAmounts : LSpendSun(a)
    \/ \E a \in SpendAmounts : LCanAfford(a)
    \/ \E a \in SpendAmounts : LCheckThenSpend(a)
    \/ LReset

SpecLedger == Init /\ [][LedgerNext]_vars

(***************************************************************************)
(* The grid on its own: any sequence of grid calls                         *)
(***************************************************************************)
GridNext ==
    \/ \E r \in GridRowsIn, c \in GridColsIn, e \in GridEnts :
            GPlacePlant(r, c, e)
    \/ \E r \in GridRowsIn, c \in GridColsIn : GRemovePlant(r, c)
    \/ \E r \in GridRowsIn, c \in GridColsIn, e \in GridEnts :
            GPlaceThenRemove(r, c, e)

SpecGrid == Init /\ [][GridNext]_vars

(***************************************************************************)
(* Ledger claims                                                           *)
(***************************************************************************)
LogEntries == {ledgerLog[i] : i \in 1 .. Len(ledgerLog)}

\* C1: over every sequence of spendSun / addSun (amount >= 0) calls from the
\* starting amount the total is never negative, and a spendSun that returned
\* false left the total as it was.
C1_NeverNegative ==
    /\ sunAmount >= 0
    /\ \A e \in LogEntries :
        /\ e.after >= 0
        /\ (e.op = "spendSun" /\ e.ret = FALSE) => e.after = e.before

\* a debit was refused with the total intact, after an accepted one
C1_Witness ==
    \E i, j \in 1 .. Len(ledgerLog) :
        /\ i < j
        /\ ledgerLog[i].op = "spendSun" /\ ledgerLog[i].ret = TRUE
        /\ ledgerLog[i].amount > 0
        /\ ledgerLog[j].op = "spendSun" /\ ledgerLog[j].ret = FALSE
        /\ ledgerLog[j].after = ledgerLog[j].before

\* C2: spendSun(amount) returns true and takes exactly amount iff total >=
\* amount, addSun(amount) adds exactly amount; from 150 debit(100) leaves 50,
\* a second debit(100) fails leaving 50, credit(50) then gives 100.
C2_DebitCredit ==
    /\ \A e \in LogEntries :
        /\ e.op = "spendSun" =>
              /\ e.ret = (e.before >= e.amount)
              /\ e.after = IF e.before >= e.amount
                           THEN e.before - e.amount ELSE e.before
        /\ e.op = "addSun" => e.after = e.before + e.amount
    /\ ( /\ Len(ledgerLog) >= 3
         /\ ledgerLog[1].op = "spendSun" /\ ledgerLog[1].amount = 100
         /\ ledgerLog[2].op = "spendSun" /\ ledgerLog[2].amount = 100
         /\ ledgerLog[3].op = "addSun" /\ ledgerLog[3].amount = 50 )
       => /\ ledgerLog[1].before = 150
          /\ ledgerLog[1].ret = TRUE /\ ledgerLog[1].after = 50
          /\ ledgerLog[2].ret = FALSE /\ ledgerLog[2].after = 50
          /\ ledgerLog[3].after = 100

\* the scenario of the claim has been played
C2_Witness ==
    /\ Len(ledgerLog) >= 3
    /\ ledgerLog[1].op = "spendSun" /\ ledgerLog[1].amount = 100
    /\ ledgerLog[2].op = "spendSun" /\ ledgerLog[2].amount = 100
    /\ ledgerLog[3].op = "addSun" /\ ledgerLog[3].amount = 50
    /\ ledgerLog[3].after = 100

\* C3: canAfford(amount) never changes the ledger nor notifies, and its
\* result equals the result of a spendSun(amount) made right after it on the
\* same ledger state.
C3_CanAffordAgrees ==
    \A e \in LogEntries :
        /\ e.op = "canAfford" =>
              /\ e.after = e.before /\ e.fired = FALSE
              /\ e.ret = (e.before >= e.amount)
        /\ e.op = "checkThenSpend" => e.check = e.ret

\* the check and the debit were made on a total equal to the amount, and on
\* a total below it
C3_Witness ==
    /\ \E e \in LogEntries :
        e.op = "checkThenSpend" /\ e.before = e.amount /\ e.amount > 0
            /\ e.check /\ e.ret
    /\ \E e \in LogEntries :
        e.op = "checkThenSpend" /\ e.before < e.amount
            /\ ~e.check /\ ~e.ret

\* C4 (as stated): onSunChange fires only as part of an addSun or of a
\* spendSun that returned true; no other ledger operation fires it.
C4_Original ==
    \A e \in LogEntries :
        e.fired => (e.op = "addSun" \/
                    (e.op \in {"spendSun", "checkThenSpend"} /\ e.before >= e.amount))

\* C4 (amended): onSunChange fires only as part of an addSun, of a spendSun
\* that returned true, or of reset(); it never fires for a failed spendSun
\* nor for canAfford.
C4_NotifyOnlyOnChange ==
    \A e \in LogEntries :
        /\ e.fired => (e.op \in {"addSun", "reset"} \/
                       (e.op \in {"spendSun", "checkThenSpend"}
                            /\ e.before >= e.amount))
        /\ (e.op = "spendSun" /\ e.ret = FALSE) => ~e.fired
        /\ e.op = "canAfford" => ~e.fired

\* a failed debit that did not notify, and a reset that did
C4_Witness ==
    /\ \E e \in LogEntries : e.op = "spendSun" /\ e.ret = FALSE /\ ~e.fired
    /\ \E e \in LogEntries : e.op = "reset" /\ e.fired

(***************************************************************************)
(* Grid claims                                                             *)
(***************************************************************************)
\* C5: on a valid empty cell placePlant(row,col,e) followed at once by
\* removePlant(row,col) returns exactly e and leaves the cell empty;
\* placePlant on an occupied or invalid cell returns false and leaves every
\* cell's occupant and occupied flag unchanged.
C5_PlaceRelease ==
    LET e == gridLog IN
    /\ (e.op = "placeThenRemove" /\ isValidCell(e.row, e.col)
            /\ ~e.before[<<e.row, e.col>>].occupied) =>
          /\ e.ret = <<TRUE, e.entity>>
          /\ grid[<<e.row, e.col>>] = EmptyCell
          /\ isCellEmpty(grid, e.row, e.col)
    /\ (e.op = "placePlant" /\
            (~isValidCell(e.row, e.col) \/ e.before[<<e.row, e.col>>].occupied)) =>
          /\ e.ret = FALSE
          /\ grid = e.before

\* a placement was refused on a cell held by another entity
C5_Witness ==
    /\ gridLog.op = "placePlant" /\ gridLog.ret = FALSE
    /\ isValidCell(gridLog.row, gridLog.col)
    /\ grid[<<gridLog.row, gridLog.col>>].occupied
    /\ grid[<<gridLog.row, gridLog.col>>].entity # gridLog.entity

(***************************************************************************)
(* Grid / entity claims                                                    *)
(***************************************************************************)
Ids == 0 .. Len(heap) - 1
Plants == {id \in Ids : heap[id + 1].type = "plant"}
Zombies == {id \in Ids : heap[id + 1].type = "zombie"}

\* C6: at every frame boundary a cell is marked occupied exactly when it
\* references a plant entity that is active and still in the store, on every
\* path through placement, melee death, explosion, restart and quit.
C6_OccupiedIffActive ==
    \A c \in Cells :
        grid[c].occupied <=>
            /\ grid[c].entity # NULL
            /\ grid[c].entity \in Plants
            /\ grid[c].entity \in store
            /\ heap[grid[c].entity + 1].active

\* C6 witness: a second session with a plant standing on the lawn after an
\* earlier plant was released from the grid and destroyed.
C6_Witness ==
    /\ hist.sessions = 2
    /\ \E c \in Cells : grid[c].occupied
    /\ \E p \in Plants : ~heap[p + 1].active /\ heap[p + 1].released = 1

\* C7 as stated: a stored plant with health left (that has not exploded) is
\* active and on the grid, and a plant whose health is <= 0 is already
\* inactive with its cell released when the damaging call has returned.
C7_Original ==
    \A p \in Plants \cap store :
        /\ heap[p + 1].hp > 0 /\ ~heap[p + 1].exploded
              => heap[p + 1].active /\ CellsOf(grid, p) # {}
        /\ heap[p + 1].hp <= 0
              => ~heap[p + 1].active /\ CellsOf(grid, p) = {}

\* C8: removePlant hands back each plant at most once; a plant whose health
\* reached <= 0 (or that exploded) has been released exactly once, however
\* many hits follow, and no plant that is still standing was ever released
\* by another plant's death processing.
C8_ReleasedOnce ==
    \A p \in Plants :
        /\ heap[p + 1].released <= 1
        /\ heap[p + 1].deathRuns >= 1 \/ heap[p + 1].exploded
              => heap[p + 1].released = 1
        /\ p \in store /\ heap[p + 1].hp <= 0 => heap[p + 1].released = 1
        /\ p \in store /\ heap[p + 1].hp > 0 /\ ~heap[p + 1].exploded
              => heap[p + 1].released = 0

\* C8 witness: a plant that was hit again after its health was already <= 0
\* and whose cell was released once.
C8_Witness ==
    \E p \in Plants : heap[p + 1].lateHits >= 1 /\ heap[p + 1].released = 1

\* C9 as stated: no entity is damaged after its health is <= 0, death
\* processing runs at most once per entity, the kill bonus is credited once
\* per killed zombie and never for a plant.
C9_Original ==
    /\ \A e \in Plants \cup Zombies :
          heap[e + 1].lateHits = 0 /\ heap[e + 1].deathRuns <= 1
    /\ \A z \in Zombies : heap[z + 1].bonus = heap[z + 1].deathRuns
    /\ \A p \in Plants : heap[p + 1].bonus = 0

\* C10: isWaveComplete() returns false whenever an entry of the active wave
\* is unspawned or a zombie is active; when the call made in a frame
\* returned true, every entry is spawned and no zombie is active.
C10_WaveCompleteSafe ==
    LET unspawned == \E i \in 1 .. Len(wm.spawnTimers) :
                         ~wm.spawnTimers[i].spawned
        activeZ == zombiesRemaining(W) > 0
    IN /\ (wm.waveActive /\ unspawned) \/ activeZ => ~isWaveCompleteRet(W)
       /\ hist.waveComplete => ~unspawned /\ ~activeZ

\* C10 witness: the wave check of the last frame returned true after both
\* scheduled zombies were spawned and killed.
C10_Witness ==
    /\ hist.waveComplete
    /\ wm.zombiesSpawned = wm.totalZombiesInWave
    /\ \E z \in Zombies : heap[z + 1].deathRuns = 1

(***************************************************************************)
(* Wave completion and the end of the game                                 *)
(***************************************************************************)
AllSpawned ==
    /\ wm.spawnTimers # <<>>
    /\ \A i \in 1 .. Len(wm.spawnTimers) : wm.spawnTimers[i].spawned

NoActiveZombie == zombiesRemaining(W) = 0

\* C11 as stated: in every state where all scheduled entries of a started
\* wave are spawned and no zombie is active, isWaveComplete() returns true.
C11_Original ==
    wm.currentWave >= 1 /\ AllSpawned /\ NoActiveZombie
        => isWaveCompleteRet(W)

\* C11 amended: isWaveComplete() returns true only with every entry spawned
\* and no zombie active, and it then leaves waveActive false; a playing
\* frame never ends with an active wave whose entries are all spawned and
\* whose zombies are all gone (the call of that frame has returned true and
\* deactivated it), so the call returns true once per wave and false later.
C11_TrueOncePerWave ==
    /\ hist.waveComplete =>
            ~wm.waveActive /\ AllSpawned /\ NoActiveZombie
    /\ state = "playing" => ~isWaveCompleteRet(W)

\* C11 witness: a playing frame whose wave check returned false although a
\* wave was started, all its entries are spawned and no zombie is active:
\* the wave was deactivated by the earlier call that returned true.
C11_Witness ==
    /\ state = "playing"
    /\ ~hist.waveComplete
    /\ wm.currentWave >= 1
    /\ ~wm.waveActive
    /\ AllSpawned
    /\ NoActiveZombie
    /\ \E z \in Zombies : heap[z + 1].deathRuns = 1

\* every wave of the table has been started and its schedule fully spawned
WavesExhausted == wm.currentWave >= Len(WAVES) /\ AllSpawned

\* C12: the game is in the WIN state only with the wave table exhausted
\* and no zombie active, and isAllWavesComplete() is false whenever a wave
\* is still unstarted or unspawned or a zombie is active; the all-complete
\* flag is set only past the end of the table.
C12_WinOnlyWhenExhausted ==
    /\ state = "win" => WavesExhausted /\ NoActiveZombie
    /\ isAllWavesComplete(W) => WavesExhausted /\ NoActiveZombie
    /\ wm.allWavesComplete => wm.currentWave > Len(WAVES)

\* C12 witness: the last wave of the table is fully spawned, a zombie is
\* still active, and the game is still being played.
C12_Witness ==
    /\ state = "playing"
    /\ WavesExhausted
    /\ ~NoActiveZombie
    /\ ~isAllWavesComplete(W)

\* Once the last wave is over nothing is left to happen: no wave is
\* active, no callback is pending and the all-complete flag is unset ...
WaveTrap ==
    /\ state = "playing"
    /\ WavesExhausted
    /\ NoActiveZombie
    /\ ~wm.waveActive
    /\ ~wm.allWavesComplete
    /\ timers = <<>>

\* ... and a step leaves this situation only by leaving the PLAYING state,
\* so a game that is in WaveTrap and keeps being played never wins.
WaveTrapClosed == [][WaveTrap => WaveTrap' \/ state' # "playing"]_vars

\* C13 as stated, for a finite run: when every zombie of every wave of the
\* table has been spawned and destroyed, the wave check has closed the last
\* wave and no start-wave callback is pending (nothing the win could still
\* wait for), the game is in the WIN state.
C13_Original ==
    WavesExhausted /\ NoActiveZombie /\ ~wm.waveActive /\ timers = <<>>
        => state = "win"

\* C13 situation: all five waves are spawned and destroyed, the game is
\* still PLAYING and is caught in WaveTrap.
C13_Witness == WaveTrap /\ wm.currentWave = Len(WAVES)

(***************************************************************************)
(* Reaching the house                                                      *)
(***************************************************************************)
StoredZombies == Zombies \cap store

\* C14: a stored zombie carries the reached-house flag exactly when its x is
\* below OFFSET_X - 1, the flag of a zombie that stays in the store is never
\* cleared, and whenever an active stored zombie carries the flag the game
\* is in the LOSE state (the frame that set the flag ended in LOSE).
C14_ReachedHouseLoses ==
    /\ [](\A z \in StoredZombies :
             heap[z + 1].reachedHouse
                 <=> heap[z + 1].x < OFFSET_X - HOUSE_MARGIN)
    /\ []((\E z \in StoredZombies :
              heap[z + 1].active /\ heap[z + 1].reachedHouse)
              => state = "lose")
    /\ [][\A z \in StoredZombies :
              heap[z + 1].reachedHouse /\ z \in store'
                  => heap'[z + 1].reachedHouse]_vars

\* C14 witness: a zombie has walked past the threshold, carries the flag,
\* and the game is lost.
C14_Witness ==
    /\ state = "lose"
    /\ \E z \in StoredZombies :
           /\ heap[z + 1].active
           /\ heap[z + 1].reachedHouse
           /\ heap[z + 1].x < OFFSET_X - HOUSE_MARGIN

(***************************************************************************)
(* The spawn schedule                                                      *)
(***************************************************************************)
\* the slots a wave entry asks for: group g, i-th zombie of the group
Slots(data) ==
    UNION {{<<g, i>> : i \in 0 .. data.zombies[g].count - 1} :
              g \in 1 .. Len(data.zombies)}

SlotTime(data, sl) == data.delay + sl[2] * data.zombies[sl[1]].interval

SlotType(data, sl) == data.zombies[sl[1]].type

\* a schedule is in force: the last start call built one
Scheduled ==
    \/ waveLog.op = "startWith"
    \/ waveLog.op = "startWave" /\ waveLog.ret
    \/ waveLog.op = "update"

ScenarioWave ==
    [zombies |-> << [type |-> "basic", count |-> 3, interval |-> 1000] >>,
     delay |-> 2000]

\* C15: the schedule startWave builds holds, for every group, exactly count
\* entries at delay + i * interval (i = 0 .. count - 1) and nothing else, is
\* sorted by time, and totalZombiesInWave is its length; update() fires the
\* entries in schedule order, each once, at the first clock reading that
\* has reached its time; {basic, 3, 1000} with delay 2000 gives exactly
\* 2000, 3000, 4000.
C15_ScheduleExact ==
    LET data == waveLog.data
        st == wm.spawnTimers
        fired == waveLog.fired
    IN Scheduled =>
        /\ Len(st) = Cardinality(Slots(data))
        /\ wm.totalZombiesInWave = Len(st)
        /\ \A k \in 1 .. Len(st) - 1 : st[k].time <= st[k + 1].time
        /\ \A sl \in Slots(data) :
               Cardinality({k \in 1 .. Len(st) :
                               /\ st[k].type = SlotType(data, sl)
                               /\ st[k].time = SlotTime(data, sl)})
                 = Cardinality({s2 \in Slots(data) :
                                  /\ SlotType(data, s2) = SlotType(data, sl)
                                  /\ SlotTime(data, s2) = SlotTime(data, sl)})
        /\ \A k \in 1 .. Len(st) :
               \E sl \in Slots(data) :
                   /\ st[k].type = SlotType(data, sl)
                   /\ st[k].time = SlotTime(data, sl)
        /\ Len(fired) = wm.zombiesSpawned
        /\ wm.zombiesSpawned <= wm.totalZombiesInWave
        /\ \A k \in 1 .. Len(st) : st[k].spawned <=> k <= Len(fired)
        /\ \A k \in 1 .. Len(fired) :
               /\ fired[k].type = st[k].type
               /\ fired[k].time = st[k].time
               /\ fired[k].time <= fired[k].at
               /\ \E step \in ClockSteps : fired[k].at - fired[k].time <= step
        /\ waveLog.op = "update" /\ ~wm.allWavesComplete =>
               \A k \in 1 .. Len(st) :
                   st[k].spawned <=> st[k].time <= wm.clock
        /\ data = ScenarioWave =>
               /\ [k \in 1 .. Len(st) |-> st[k].time] = <<2000, 3000, 4000>>
               /\ \A k \in 1 .. Len(st) : st[k].type = "basic"

\* C15 witness: the scenario wave has run to its end; three zombies were
\* fired, at 2000, 3000 and 4000.
C15_Witness ==
    /\ waveLog.op = "update"
    /\ waveLog.data = ScenarioWave
    /\ [k \in 1 .. Len(waveLog.fired) |-> waveLog.fired[k].at]
           = <<2000, 3000, 4000>>
    /\ wm.zombiesSpawned = 3
    /\ Cardinality(Zombies) = 3

\* C16: startWave() without an argument advances currentWave by one; past
\* the end of the table it sets allWavesComplete, returns false and leaves
\* the schedule and waveActive as they were; otherwise it returns true with
\* waveActive set and zombiesSpawned back at 0.
C16_StartNextWave ==
    waveLog.op = "startWave" =>
        /\ wm.currentWave = waveLog.before.currentWave + 1
        /\ IF wm.currentWave > Len(WAVES)
           THEN /\ wm.allWavesComplete
                /\ ~waveLog.ret
                /\ wm.spawnTimers = waveLog.before.spawnTimers
                /\ wm.waveActive = waveLog.before.waveActive
                /\ wm.zombiesSpawned = waveLog.before.zombiesSpawned
           ELSE /\ waveLog.ret
                /\ wm.waveActive
                /\ wm.zombiesSpawned = 0
                /\ ~wm.allWavesComplete

\* C16 witness: startWave() was called with the last wave of the table
\* current and partly spawned; it returned false.
C16_Witness ==
    /\ waveLog.op = "startWave"
    /\ ~waveLog.ret
    /\ wm.currentWave = Len(WAVES) + 1
    /\ waveLog.before.zombiesSpawned > 0

(***************************************************************************)
(* Deferred removal                                                        *)
(***************************************************************************)
\* the destroyed entities still held by the store
StoredInactive(w) == {id \in w.store : ~Ent(w, id).active}

FlushedState(w) == StoredInactive(w) = {} /\ w.pend = <<>>

\* what gameLoop itself leaves behind: everything that was destroyed up to
\* and during its tick is out of the store when it returns
LoopFlushes ==
    state = "playing" =>
        \A ch \in [1 .. DueCount(ageReal(W)) -> SpawnChoices] :
            FlushedState(gameLoop(FrameStart, NoInput, ch))

\* C17 (as stated): when the next tick starts, no destroyed entity is in
\* the store and nothing waits in the removal queue.
C17_Original == state = "playing" => FlushedState(W)

\* C17 witness: between two PLAYING frames a destroyed entity that still
\* carries its mesh is in the store and in the removal queue, so the next
\* tick's entity list holds it.
C17_Witness ==
    /\ state = "playing"
    /\ timeScale > 0
    /\ \E id \in StoredInactive(W) :
           /\ id \in Range(pendingRemovals)
           /\ Ent(W, id).type = "plant"
           /\ Ent(W, id).mesh

(***************************************************************************)
(* Queries                                                                 *)
(***************************************************************************)
ComponentNames ==
    {"Transform", "Health", "Plant", "Zombie", "Animation", "Explosive",
     "Collectable", "Shooter"}

QueriesIn == UNION {[1 .. n -> ComponentNames] : n \in 0 .. MaxNames}

TypesIn == {"plant", "zombie", "sun", "projectile"}

\* result lists exactly the stored entities in the set want, each once
ListsExactly(result, want) ==
    /\ Range(result) = want \cap store
    /\ Len(result) = Cardinality(want \cap store)

\* C18: getEntitiesWithComponents(names) returns an entity, once, if and
\* only if it is in the store, active and has every named component;
\* getEntitiesByType(type) returns an entity, once, if and only if it is
\* in the store, active and of that type; neither returns an inactive
\* entity.
C18_QueriesExact ==
    /\ \A names \in QueriesIn :
           ListsExactly(getEntitiesWithComponents(W, names),
                        {id \in Ids :
                            /\ heap[id + 1].active
                            /\ Range(names)
                                  \subseteq componentsOf(heap[id + 1])})
    /\ \A type \in TypesIn :
           ListsExactly(getEntitiesByType(W, type),
                        {id \in Ids : /\ heap[id + 1].active
                                      /\ heap[id + 1].type = type})

\* C18 witness: the store holds a destroyed plant and an active zombie,
\* both with Transform and Health; the component query returns the zombie
\* and not the plant, and the plant query does not return the plant.
C18_Witness ==
    \E p \in Plants \cap store, z \in Zombies \cap store :
        /\ ~heap[p + 1].active
        /\ heap[z + 1].active
        /\ {"Transform", "Health"} \subseteq componentsOf(heap[p + 1])
        /\ z \in Range(getEntitiesWithComponents(W, <<"Transform", "Health">>))
        /\ p \notin Range(getEntitiesWithComponents(W, <<"Transform", "Health">>))
        /\ p \notin Range(getEntitiesByType(W, "plant"))

(***************************************************************************)
(* Destroying more than once                                               *)
(***************************************************************************)
\* "entity.destroy(); world.removeEntity(entity)" run n times
RECURSIVE destroyTimes(_, _, _)
destroyTimes(w, id, n) ==
    IF n = 0 THEN w
    ELSE destroyTimes(removeEntity(destroy(w, id), id), id, n - 1)

SameOutcome(a, b) ==
    /\ a.store = b.store
    /\ a.heap = b.heap
    /\ a.pend = <<>>
    /\ b.pend = <<>>

\* C19: destroying a stored entity two or more times before the flush
\* leaves, after the flush, what destroying it once leaves: the entity is
\* inactive and out of the store, no entity that was not queued is
\* removed, and the queue is empty.
C19_DestroyIdempotent ==
    \A id \in store :
        \A n \in 2 .. MaxDestroys :
            /\ SameOutcome(processPendingRemovals(destroyTimes(W, id, n)),
                           processPendingRemovals(destroyTimes(W, id, 1)))
            /\ processPendingRemovals(destroyTimes(W, id, n)).store
                  = store \ ({id} \cup Range(pendingRemovals))
            /\ ~Ent(processPendingRemovals(destroyTimes(W, id, n)), id).active

\* C19 witness: the game itself has destroyed and queued one entity twice
\* (two death animations of the same plant ended in one frame) and the
\* flush takes it out of the store.
C19_Witness ==
    \E i, j \in 1 .. Len(pendingRemovals) :
        /\ i < j
        /\ pendingRemovals[i] = pendingRemovals[j]
        /\ pendingRemovals[i] \in store
        /\ ~heap[pendingRemovals[i] + 1].active
        /\ pendingRemovals[i] \notin processPendingRemovals(W).store
        /\ processPendingRemovals(W).pend = <<>>

(***************************************************************************)
(* Order of a tick                                                         *)
(***************************************************************************)
TickOrder == <<"wave", "sun", "zombie", "combat", "plant", "anim", "flush">>

\* the position of a step in the last frame's record, 0 if it did not run
StepAt(step) ==
    IF \E i \in 1 .. Len(hist.order) : hist.order[i] = step
    THEN CHOOSE i \in 1 .. Len(hist.order) : hist.order[i] = step
    ELSE 0

\* a frame that ran updateGame: simulation time moved while PLAYING
PlayingTick == state = "playing" /\ elapsedTime' > elapsedTime

\* C20: a PLAYING tick runs wave scheduling, sun update, zombie behaviour,
\* combat, the plant (lifetime) sweep and then, in the same frame and after
\* all of them, the removal flush; each step runs once per frame, combat
\* never before zombie behaviour, the flush never before a system update.
C20_TickOrder ==
    /\ [](hist.order \in {<<>>, <<"flush">>, TickOrder})
    /\ [](\A step \in Range(TickOrder) :
             Cardinality({i \in 1 .. Len(hist.order) :
                             hist.order[i] = step}) <= 1)
    /\ [](StepAt("combat") > 0 => /\ StepAt("zombie") > 0
                                  /\ StepAt("zombie") < StepAt("combat"))
    /\ [](hist.order # <<>> => StepAt("flush") = Len(hist.order))
    /\ [][PlayingTick => hist'.order = TickOrder]_vars

\* C20 witness: a PLAYING tick has just run in full; in it a zombie walked
\* up to a plant and turned to attack it, and the flush came last.
C20_Witness ==
    /\ state = "playing"
    /\ hist.order = TickOrder
    /\ \E z \in Zombies \cap store :
           /\ heap[z + 1].zstate = "attack"
           /\ heap[z + 1].lastAttack = elapsedTime
           /\ heap[z + 1].target \in Plants \cap store
           /\ heap[heap[z + 1].target + 1].hp
                 = PLANTS[heap[heap[z + 1].target + 1].kind].health

(***************************************************************************)
(* Pausing                                                                 *)
(***************************************************************************)
\* wm.played is a history counter: the real time of the frames run in
\* PLAYING since the wave started.  Simulation time is that time scaled and
\* clamped, so it is never more.

\* simulation time, which the melee and sun-production cooldowns read,
\* stands still while the time scale is 0 (a new session sets it back to 0)
PausedSimFrozen ==
    [][timeScale = 0 /\ timeScale' = 0
          => elapsedTime' = elapsedTime \/ elapsedTime' = 0]_vars

\* C21 (as stated): a scheduled spawn has fired only if at least its due
\* time has been played, pauses not counted, since the wave started.
C21_Original ==
    \A i \in 1 .. Len(wm.spawnTimers) :
        wm.spawnTimers[i].spawned => wm.spawnTimers[i].time <= wm.played

\* C21 witness: after a pause and a resume a zombie has been spawned whose
\* due time is more than the time played since the wave started.
C21_Witness ==
    /\ state = "playing"
    /\ hist.pauses > 0
    /\ \E i \in 1 .. Len(wm.spawnTimers) :
           /\ wm.spawnTimers[i].spawned
           /\ wm.spawnTimers[i].time > wm.played
           /\ wm.clock >= wm.spawnTimers[i].time

(***************************************************************************)
(* Delayed callbacks                                                       *)
(***************************************************************************)
\* a step in which a setTimeout callback ran: it is the only step that
\* takes a timer away
TimerRan == Len(timers') < Len(timers)

\* C22: a start-wave callback that fires while the state is not PLAYING
\* changes nothing: not the wave manager (currentWave, schedule,
\* waveActive), not the entities, not the game state.
C22_CallbackGuarded ==
    [][TimerRan /\ state # "playing"
          => /\ wm' = wm
             /\ state' = state
             /\ heap' = heap
             /\ store' = store
             /\ sunAmount' = sunAmount
             /\ grid' = grid]_vars

\* C22 witness: the first-wave callback has fired during a pause: the
\* session is paused, no callback is pending and no wave was started.
C22_Witness ==
    /\ state = "paused"
    /\ hist.sessions > 0
    /\ timers = <<>>
    /\ wm = WaveManagerReset

(***************************************************************************)
(* Placement                                                               *)
(***************************************************************************)
PlaceRowsIn == {-1, 0, ROWS - 1, ROWS}
PlaceColsIn == {-1, 0, COLS - 1, COLS}
PlaceTypesIn == {"PEASHOOTER", "SUNFLOWER", "WALLNUT", "CHERRYBOMB", "ROSE"}

\* the tests tryPlacePlant makes before it creates the plant
Accepted(w, row, col, type) ==
    /\ isValidCell(row, col)
    /\ ~w.grid[<<row, col>>].occupied
    /\ type \in DOMAIN PLANTS
    /\ w.sun >= PLANTS[type].cost

\* r is w after one successful placement of type at (row, col)
PlacedIn(w, r, row, col, type) ==
    /\ r.sun = w.sun - PLANTS[type].cost
    /\ r.grid = [w.grid EXCEPT ![<<row, col>>] =
                     [occupied |-> TRUE, entity |-> Len(w.heap)]]
    /\ r.store = w.store \cup {Len(w.heap)}
    /\ Len(w.heap) \notin w.store
    /\ Len(r.heap) = Len(w.heap) + 1
    /\ SubSeq(r.heap, 1, Len(w.heap)) = w.heap
    /\ r.heap[Len(r.heap)].type = "plant"
    /\ r.heap[Len(r.heap)].kind = type
    /\ r.heap[Len(r.heap)].active
    /\ r.heap[Len(r.heap)].hp = PLANTS[type].health
    /\ r = [w EXCEPT !.sun = r.sun, !.grid = r.grid, !.store = r.store,
                     !.heap = r.heap]

InCell(x, z, row, col) ==
    /\ OFFSET_X + col * CELL_SIZE <= x
    /\ x < OFFSET_X + (col + 1) * CELL_SIZE
    /\ OFFSET_Z + row * CELL_SIZE <= z
    /\ z < OFFSET_Z + (row + 1) * CELL_SIZE

\* C24: for a position inside a valid cell, worldToGrid gives that cell
\* and gridToWorld of it gives the cell's centre, at most half a cell away
\* in x and z; for a valid cell, worldToGrid(gridToWorld(row, col)) is the
\* cell again.  A position outside the lawn gives no valid cell.
C24_RoundTrip ==
    /\ coordLog.op = "world" =>
           /\ \A c \in Cells :
                  InCell(coordLog.x, coordLog.z, c[1], c[2]) =>
                      /\ coordLog.row = c[1]
                      /\ coordLog.col = c[2]
                      /\ coordLog.outX
                            = OFFSET_X + c[2] * CELL_SIZE + CELL_SIZE \div 2
                      /\ coordLog.outZ
                            = OFFSET_Z + c[1] * CELL_SIZE + CELL_SIZE \div 2
                      /\ Abs(coordLog.outX - coordLog.x) <= CELL_SIZE \div 2
                      /\ Abs(coordLog.outZ - coordLog.z) <= CELL_SIZE \div 2
           /\ isValidCell(coordLog.row, coordLog.col)
                  => InCell(coordLog.x, coordLog.z, coordLog.row, coordLog.col)
    /\ coordLog.op = "grid" /\ isValidCell(coordLog.row, coordLog.col) =>
           /\ coordLog.outRow = coordLog.row
           /\ coordLog.outCol = coordLog.col

\* C24 witness: a position on the last millimetre of the corner cell
\* (ROWS - 1, COLS - 1) was converted and came back as that cell's centre.
C24_Witness ==
    /\ coordLog.op = "world"
    /\ coordLog.x = OFFSET_X + COLS * CELL_SIZE - 1
    /\ coordLog.z = OFFSET_Z + ROWS * CELL_SIZE - 1
    /\ coordLog.row = ROWS - 1
    /\ coordLog.col = COLS - 1
    /\ coordLog.outX = gridToWorldX(COLS - 1)

(***************************************************************************)
(* Walking                                                                 *)
(***************************************************************************)
\* mm from the spawn line to the goal threshold, and the position 10 world
\* units before the threshold
StrideLength == spawnX - (OFFSET_X - HOUSE_MARGIN)
ScenarioX == OFFSET_X - HOUSE_MARGIN + 10000

\* mm * 1000 walked by a zombie of that kind in the elapsed time
Walked(kind) == ZOMBIES[kind].speed * elapsedTime

\* C25: the position of an unblocked zombie is its spawn position less
\* speed times the elapsed simulation time, however the time was split
\* into ticks; it carries the reached-house flag exactly when speed times
\* time exceeds the distance to the threshold, and gets it within one
\* tick after that moment: at speed 0.8 from 10 units before the
\* threshold, between 12.5 s and 12.5 s plus one tick.
C25_StrideIndependent ==
    \A z \in StoredZombies :
        /\ heap[z + 1].x * 1000 = spawnX * 1000 - Walked(heap[z + 1].kind)
        /\ heap[z + 1].reachedHouse
              <=> Walked(heap[z + 1].kind) > StrideLength * 1000
        /\ heap[z + 1].reachedHouse =>
              /\ state = "lose"
              /\ Walked(heap[z + 1].kind) - (spawnX - ScenarioX) * 1000
                    > 10000 * 1000
              /\ Walked(heap[z + 1].kind) - (spawnX - ScenarioX) * 1000
                    <= 10000 * 1000 + ZOMBIES[heap[z + 1].kind].speed * MAX_DELTA
              /\ heap[z + 1].kind = "basic" =>
                    /\ elapsedTime - 4750 > 12500
                    /\ elapsedTime - 4750 <= 12500 + MAX_DELTA

\* C25 witness: the zombie got the flag at 17.26 s, 12.51 s after it was
\* 10 units from the threshold, in a run whose ticks were not all of one
\* length (17260 ms is not a multiple of 50 or 100).
C25_Witness ==
    /\ state = "lose"
    /\ elapsedTime = 17260
    /\ \E z \in StoredZombies :
           /\ heap[z + 1].reachedHouse
           /\ heap[z + 1].x = ScenarioX - 10008

(***************************************************************************)
(* Shooters                                                                *)
(***************************************************************************)
Shooters ==
    {p \in store : heap[p + 1].type = "plant" /\ heap[p + 1].active
                      /\ hasComponent(heap[p + 1], "Shooter")}

PoolExhausted == \A h \in 1 .. Len(projectilePool) : projectilePool[h]

\* the projectiles in flight
LiveProjectiles ==
    {q \in store : heap[q + 1].type = "projectile" /\ heap[q + 1].active}

\* no shooter has fired without an active zombie ahead of it in its lane,
\* and none has fired twice in one tick
FiresAtTargetOncePerTick ==
    \A p \in Shooters : heap[p + 1].blind = 0 /\ heap[p + 1].volley <= 1

\* C26 (as stated): a shooter fires only at an active zombie ahead of it in
\* its lane and at most once per tick, and its lastShot is written in a tick
\* exactly when it spawned a projectile in that tick.
C26_Original ==
    \A p \in Shooters :
        /\ heap[p + 1].blind = 0
        /\ heap[p + 1].volley <= 1
        /\ heap[p + 1].lastShot = heap[p + 1].firedAt

\* C26 witness: in a second session every pool handle is taken, one of them
\* by a projectile that was in flight when the first session was cleared,
\* and a shooter's lastShot has been written in the current tick although
\* its last projectile is older.
C26_Witness ==
    /\ state = "playing"
    /\ hist.sessions = 2
    /\ PoolExhausted
    /\ Cardinality(LiveProjectiles) < maxProjectiles
    /\ \E p \in Shooters :
           /\ heap[p + 1].lastShot = elapsedTime
           /\ heap[p + 1].firedAt < elapsedTime

(***************************************************************************)
(* The projectile pool                                                     *)
(***************************************************************************)
\* the projectile entities created by the step
SpawnedProjectiles ==
    {i \in 1 .. Len(heap') :
        /\ heap'[i].type = "projectile"
        /\ i > Len(heap) \/ heap[i].type # "projectile"}

\* the pool keeps its size, every projectile in flight holds a handle that
\* is marked taken, no two hold the same handle, and the handle offered next
\* is a free one, or none when all are taken
PoolSound ==
    /\ Len(projectilePool) = maxProjectiles
    /\ \A q \in LiveProjectiles :
           /\ heap[q + 1].handle \in 1 .. maxProjectiles
           /\ projectilePool[heap[q + 1].handle]
    /\ \A q, r \in LiveProjectiles :
           heap[q + 1].handle = heap[r + 1].handle => q = r
    /\ Cardinality(LiveProjectiles) <= maxProjectiles
    /\ IF PoolExhausted THEN firstFree(projectilePool) = NULL
       ELSE /\ firstFree(projectilePool) \in 1 .. maxProjectiles
            /\ ~projectilePool[firstFree(projectilePool)]

\* C27: the pool has a fixed capacity; getProjectileFromPool gives a free
\* handle or null; no handle is held by two projectiles in flight; the
\* projectiles in flight never outnumber the handles; and a tick that
\* starts with every handle taken creates no projectile and runs to its
\* end (the removal queue is flushed).
C27_PoolCapacity ==
    /\ []PoolSound
    /\ [][PoolExhausted
             => /\ SpawnedProjectiles = {}
                /\ pendingRemovals' = <<>>]_vars

\* C27 witness: both handles are held by projectiles in flight and the
\* shooter, its interval over and a zombie ahead, has got none in this tick.
C27_Witness ==
    /\ state = "playing"
    /\ PoolExhausted
    /\ Cardinality(LiveProjectiles) = maxProjectiles
    /\ \E p \in Shooters :
           /\ heap[p + 1].lastShot = elapsedTime
           /\ heap[p + 1].firedAt < elapsedTime
           /\ heap[p + 1].firedAt > 0

(***************************************************************************)
(* Projectiles                                                             *)
(***************************************************************************)
Projectiles == {i \in 1 .. Len(heap) : heap[i].type = "projectile"}

\* a step inside one session
SameSession == hist'.sessions = hist.sessions

\* no projectile has hit twice, one that has hit is gone, and one in flight
\* is not beyond the far bound
ProjectilesSound ==
    \A i \in Projectiles :
        /\ heap[i].hits <= 1
        /\ heap[i].hits = 1 => ~heap[i].active /\ i - 1 \notin store
        /\ i - 1 \in LiveProjectiles => heap[i].x <= PROJECTILE_BOUND

\* a projectile that leaves the game inside a session gives its handle back
HandleReturned ==
    \A q \in LiveProjectiles :
        q \notin LiveProjectiles' => ~projectilePool'[heap[q + 1].handle]

\* a projectile that stays in flight has moved by speed * dt
Advances ==
    \A q \in LiveProjectiles \cap LiveProjectiles' :
        heap'[q + 1].x
            = heap[q + 1].x
              + (PROJECTILE_SPEED * (elapsedTime' - elapsedTime)) \div 1000

\* C28: a projectile damages at most one zombie in its life and is removed,
\* its handle returned, in the tick of its hit; one that hits nothing is
\* removed in the tick in which its x passes the far bound; and a
\* projectile in flight moves on by speed * dt in every tick, so that it is
\* removed after finitely many ticks in which time advances.
C28_ProjectileLife ==
    /\ []ProjectilesSound
    /\ [][SameSession => HandleReturned /\ Advances]_vars

\* C28 witness: in the first session one projectile has hit a zombie and
\* another has left the lane without a hit; both are gone and all handles
\* are free again.
C28_Witness ==
    /\ state = "playing"
    /\ hist.sessions = 1
    /\ LiveProjectiles = {}
    /\ \A h \in 1 .. Len(projectilePool) : ~projectilePool[h]
    /\ \E i, j \in Projectiles : heap[i].hits = 1 /\ heap[j].hits = 0

(***************************************************************************)
(* Explosives                                                              *)
(***************************************************************************)
Explosives == {i \in 1 .. Len(heap) : heap[i].type = "plant"}

\* an explosive that has not gone off is short of the threshold
Unexploded(i) ==
    /\ heap[i].explosions = 0
    /\ heap[i].blasted = 0
    /\ heap[i].active /\ heap[i].kind = "CHERRYBOMB" /\ i - 1 \in store
           => heap[i].timer < EXPLOSIVE_DELAY

\* an explosive that has gone off did so once, in the tick that took its
\* timer to the threshold, damaged the zombies then within reach, and is
\* inactive and off the grid
ExplodedOnce(i) ==
    /\ heap[i].explosions = 1
    /\ heap[i].blastTimer >= EXPLOSIVE_DELAY
    /\ heap[i].blastTimer < EXPLOSIVE_DELAY + MAX_DELTA
    /\ heap[i].blasted = heap[i].seen
    /\ ~heap[i].active
    /\ CellsOf(grid, i - 1) = {}

\* C29: an explosive plant explodes once, in the first tick in which its
\* timer is at least 1.0 s and not before; the explosion damages exactly
\* the active zombies within radius * CELL_SIZE; and with it the plant
\* becomes inactive and its cell empty.
C29_ExplodesOnce ==
    \A i \in Explosives :
        IF heap[i].exploded THEN ExplodedOnce(i) ELSE Unexploded(i)

\* C29 witness: a cherry bomb has exploded with one zombie within reach,
\* which it damaged, and another zombie is on the lawn unharmed.
C29_Witness ==
    /\ state = "playing"
    /\ \E i \in Explosives :
           /\ heap[i].exploded
           /\ heap[i].seen = 1
           /\ heap[i].blasted = 1
    /\ \E z \in store :
           /\ heap[z + 1].type = "zombie"
           /\ heap[z + 1].active
           /\ heap[z + 1].hp = ZOMBIES.basic.health

(***************************************************************************)
(* The zombie state machine                                                *)
(***************************************************************************)
ZombieEntities == {i \in 1 .. Len(heap) : heap[i].type = "zombie"}

ActiveZombies == {z \in store : heap[z + 1].type = "zombie" /\ heap[z + 1].active}

\* the next ZombieAI.update, one tick on
AfterAI(w) == zombieAIUpdate([w EXCEPT !.elapsed = @ + MAX_DELTA], MAX_DELTA)

\* the zombie in the state 'die' and not yet destroyed
Dying(w, z) == [w EXCEPT !.heap[z + 1].zstate = "die"]

\* the world without the zombie
Without(w, z) == [w EXCEPT !.store = @ \ {z}]

PlantsOf(w) == {p \in 1 .. Len(w.heap) : w.heap[p].type = "plant"}

\* ZombieAI.update leaves the zombie as it is and treats the plants as if
\* the zombie were not there
Inert(w, z) ==
    /\ Ent(AfterAI(w), z) = Ent(w, z)
    /\ \A p \in PlantsOf(w) :
           AfterAI(w).heap[p] = AfterAI(Without(w, z)).heap[p]

\* a zombie in the game is walking or attacking and stays so over
\* ZombieAI.update; once its state is 'die', set by killZombie, the update
\* has no effect on it or through it
LivesThenDies ==
    /\ \A i \in ZombieEntities : heap[i].zstate = "die" => heap[i].deathRuns > 0
    /\ \A z \in ActiveZombies :
           /\ heap[z + 1].zstate \in {"walk", "attack"}
           /\ heap[z + 1].deathRuns = 0
           /\ Ent(AfterAI(W), z).zstate \in {"walk", "attack"}
           /\ Ent(killZombie(W, z), z).zstate = "die"
           /\ Inert(killZombie(W, z), z)
           /\ Inert(Dying(W, z), z)

\* a zombie enters the game walking
StartsWalking ==
    \A i \in Len(heap) + 1 .. Len(heap') :
        heap'[i].type = "zombie" /\ heap'[i].active => heap'[i].zstate = "walk"

\* a zombie that has been through killZombie is not active, walking or
\* attacking afterwards
DyingIsTerminal ==
    \A i \in ZombieEntities :
        heap[i].deathRuns > 0
            => /\ ~heap'[i].active
               /\ heap'[i].zstate \notin {"walk", "attack"}
               /\ heap'[i].deathRuns > 0

\* C30: a zombie starts in 'walk'; its state becomes 'die' only in
\* CombatSystem.killZombie and never in ZombieAI.update; and a zombie in
\* 'die' never walks, attacks, moves or bites again.
C30_DyingTerminal ==
    /\ []LivesThenDies
    /\ [][StartsWalking /\ DyingIsTerminal]_vars

\* C30 witness: one zombie has been killed, its kill bonus paid, and
\* another, still in the game, stands biting a plant.
C30_Witness ==
    /\ state = "playing"
    /\ \E i \in ZombieEntities : heap[i].deathRuns = 1 /\ heap[i].bonus = 1
    /\ \E z \in ActiveZombies : heap[z + 1].zstate = "attack"

(***************************************************************************)
(* Melee                                                                   *)
(***************************************************************************)
\* the zombie bit in this step
Bit(i) == i <= Len(heap') /\ heap'[i].bites > heap[i].bites

\* the later of the zombie's block detection and its previous bite
LastMeleeEvent(i) ==
    IF heap[i].biteAt > heap[i].blockedAt THEN heap[i].biteAt
    ELSE heap[i].blockedAt

\* C31: a zombie bites at most once per tick; it bites only when it was
\* already attacking, with a block detected in an earlier tick; and a bite
\* comes at least attackSpeed ms of simulation time after the block was
\* detected and after the zombie's previous bite.
C31_AttackInterval ==
    [][\A i \in ZombieEntities :
          Bit(i) => /\ heap'[i].bites = heap[i].bites + 1
                    /\ heap[i].zstate = "attack"
                    /\ heap[i].blockedAt > 0
                    /\ heap'[i].biteAt = elapsedTime'
                    /\ elapsedTime' - LastMeleeEvent(i)
                           >= ZOMBIES[heap[i].kind].attackSpeed]_vars

\* C31 witness: a zombie has bitten twice, the second time exactly one
\* attack interval after the first.
C31_Witness ==
    \E z \in ActiveZombies :
        /\ heap[z + 1].bites = 2
        /\ heap[z + 1].biteAt = elapsedTime
        /\ heap[z + 1].biteAt - heap[z + 1].blockedAt
               = 2 * ZOMBIES[heap[z + 1].kind].attackSpeed

\* a zombie whose target is not active when its update starts goes back
\* to walking, its target cleared, without biting
DeadTargetReleased ==
    [][\A z \in ActiveZombies :
          /\ heap[z + 1].zstate = "attack"
          /\ ~heap[heap[z + 1].target + 1].active
          /\ elapsedTime' > elapsedTime
          /\ heap'[z + 1].active
          => /\ heap'[z + 1].zstate = "walk"
             /\ heap'[z + 1].target = NULL
             /\ heap'[z + 1].bites = heap[z + 1].bites]_vars

\* C32 (as stated): a zombie whose bite brings its target's health to 0 or
\* less is walking, its target cleared, at the end of that tick.
C32_Original ==
    [][\A i \in ZombieEntities :
          Bit(i) /\ heap'[heap[i].target + 1].hp <= 0
              => heap'[i].zstate = "walk" /\ heap'[i].target = NULL]_vars

\* C32 witness: a zombie has just bitten its target to health 0 or less and
\* is still attacking it; the target is still active.
C32_Witness ==
    \E z \in ActiveZombies :
        /\ heap[z + 1].zstate = "attack"
        /\ heap[z + 1].biteAt = elapsedTime
        /\ heap[heap[z + 1].target + 1].hp <= 0
        /\ heap[heap[z + 1].target + 1].active
        /\ heap[heap[z + 1].target + 1].deathRuns = 1

(***************************************************************************)
(* Placement preview                                                       *)
(***************************************************************************)
\* after updatePreview the test handleInput makes before placing,
\* "selectedPlant && previewValid", is the stated function of the selection
\* and the cell under the cursor
PlacementGateSound ==
    preview.op = "update"
        => ((preview.selectedPlant # "none" /\ preview.previewValid)
               = preview.expected)

\* C33 (as stated): after updatePreview and after setSelectedPlant the flag
\* previewValid equals (selected type != null) AND isValidCell AND
\* isCellEmpty for the cell under the cursor.
C33_Original ==
    preview.op # "none" => preview.previewValid = preview.expected

\* C33 witness: no seed is selected, updatePreview has just run, and
\* previewValid is still TRUE from an earlier call.
C33_Witness ==
    /\ preview.op = "update"
    /\ preview.selectedPlant = "none"
    /\ preview.previewValid
    /\ ~preview.expected

(***************************************************************************)
(* Lanes                                                                   *)
(***************************************************************************)
\* C34: a projectile damages only zombies whose row is the row of the plant
\* that fired it, and no plant fires while no zombie of the game is in its
\* row.
C34_LaneIsolation ==
    /\ \A i \in Projectiles : heap[i].strayHits = 0
    /\ \A i \in 1 .. Len(heap) : heap[i].type = "plant" => heap[i].offLane = 0

\* C34 witness: a peashooter in row 0 has hit a zombie of row 0 while a
\* zombie of row 1, level with the first or nearer, walks on unharmed.
C34_Witness ==
    /\ \E i \in Projectiles : heap[i].hits = 1
    /\ \E y, z \in ActiveZombies :
           /\ heap[y + 1].row = 0
           /\ heap[y + 1].hp < ZOMBIES[heap[y + 1].kind].health
           /\ heap[z + 1].row = 1
           /\ heap[z + 1].hp = ZOMBIES[heap[z + 1].kind].health
           /\ heap[z + 1].x <= heap[y + 1].x

(***************************************************************************)
(* Time scale                                                              *)
(***************************************************************************)
\* C35 (as stated): whenever the game state is PLAYING the time scale is
\* greater than 0.
C35_Original == state = "playing" => timeScale > 0

\* C35 witness: a second session is in PLAYING with time scale 0, and a
\* frame has run in it without simulation time advancing.
C35_Witness ==
    /\ state = "playing"
    /\ hist.sessions = 2
    /\ timeScale = 0
    /\ hist.idle > 0
    /\ elapsedTime = 0

(***************************************************************************)
(* Wave progression                                                        *)
(***************************************************************************)
\* A session in which no wave is active, the table has waves left and no
\* start-wave callback is pending ...
Stalled ==
    /\ state \in {"playing", "paused"}
    /\ hist.sessions > 0
    /\ ~wm.waveActive
    /\ hasMoreWaves(wm)
    /\ timers = <<>>

\* ... stays so through every frame, pause and resume: only a restart or
\* a quit to the menu ends it, so no further wave is ever started.
StalledClosed ==
    [][Stalled => \/ Stalled' /\ wm' = wm
                  \/ hist'.sessions # hist.sessions
                  \/ state' = "menu"]_vars

\* C36 (as stated, for a finite run): wave progression cannot stall; while
\* a session is being played with waves left in the table, either a wave
\* is active or a start-wave callback is pending to start the next one.
C36_Original ==
    state = "playing" /\ hist.sessions > 0 /\ hasMoreWaves(wm)
        => wm.waveActive \/ timers # <<>>

\* C36 witness: a session that was paused and resumed is being played
\* again and is stalled before its first wave.
C36_Witness ==
    /\ Stalled
    /\ state = "playing"
    /\ hist.pauses > 0
    /\ timeScale = 1
    /\ wm.currentWave = 0

\* the same after a completed wave: the next-wave callback fired during a
\* pause, and the resumed session has no wave and nothing pending
StalledAfterWave == Stalled /\ state = "playing" /\ wm.currentWave >= 1

(***************************************************************************)
(* Callbacks across sessions                                               *)
(***************************************************************************)
\* the callback in slot i ran in this step
Fired(i) ==
    /\ timers[i].left = 0
    /\ timers' = SubSeq(timers, 1, i - 1) \o SubSeq(timers, i + 1, Len(timers))

\* a callback armed in an earlier session ran in this step
StaleRan ==
    \E i \in 1 .. Len(timers) :
        Fired(i) /\ timers[i].session # hist.sessions

\* C37 (as stated): a start-wave callback armed in an earlier session
\* leaves the wave manager alone, and no callback resets the schedule or
\* the spawned count of a wave that is in progress.
C37_Original ==
    [][/\ StaleRan => wm' = wm
       /\ TimerRan /\ wm.waveActive
            => /\ wm'.spawnTimers = wm.spawnTimers
               /\ wm'.zombiesSpawned = wm.zombiesSpawned
               /\ wm'.clock = wm.clock]_vars

\* C37 witness: the second session is being played with wave 1 active
\* while its own first-wave callback is still pending: the wave was
\* started by the callback of the first session.
C37_Witness ==
    /\ state = "playing"
    /\ hist.sessions = 2
    /\ wm.waveActive
    /\ wm.currentWave = 1
    /\ \E i \in 1 .. Len(timers) :
           timers[i].kind = "first" /\ timers[i].session = 2

\* no callback of the session itself restarts a wave in progress and puts
\* its clock back (it does, once an earlier session's callback has started
\* the wave before the session's own first-wave callback fires)
NoRestartInProgress ==
    [][~(/\ TimerRan
         /\ ~StaleRan
         /\ wm.waveActive
         /\ wm.clock > 0
         /\ wm'.clock = 0)]_vars

(***************************************************************************)
(* Pool handles across sessions                                            *)
(***************************************************************************)
\* the pool meshes that are taken (visible)
InUseHandles == {h \in 1 .. Len(projectilePool) : projectilePool[h]}

\* within the first session the taken handles are those of the projectiles
\* in flight
PoolBalancedFirstSession ==
    hist.sessions <= 1
        => InUseHandles = {heap[q + 1].handle : q \in LiveProjectiles}

\* C38 (as stated): at every tick boundary the number of pool handles in
\* use equals the number of live projectiles in the store.
C38_Original == Cardinality(InUseHandles) = Cardinality(LiveProjectiles)

\* C38 witness: a restart cleared the world with a projectile in flight;
\* the new session has no projectile and a handle is still taken.
C38_Witness ==
    /\ hist.sessions = 2
    /\ LiveProjectiles = {}
    /\ InUseHandles # {}
    /\ \A q \in store : heap[q + 1].type # "projectile"

(***************************************************************************)
(* Pool meshes and the scene                                               *)
(***************************************************************************)
\* C39 (as stated): every mesh of the projectile pool stays a child of the
\* scene: neither the deferred-removal flush nor the world clear detaches
\* or disposes it.
C39_Original == \A h \in 1 .. Len(poolInScene) : poolInScene[h]

\* C39 witness: in the first session a projectile is in flight whose pool
\* mesh was detached from the scene by the flush that removed the previous
\* projectile using it.
C39_Witness ==
    /\ hist.sessions = 1
    /\ state = "playing"
    /\ \E q \in LiveProjectiles :
           /\ projectilePool[heap[q + 1].handle]
           /\ ~poolInScene[heap[q + 1].handle]

(***************************************************************************)
(* Walk-through                                                            *)
(***************************************************************************)
\* the active plants standing in an occupied cell of the zombie's row
PlantsInLane(z) ==
    {c \in Cells : /\ c[1] = heap[z + 1].row
                   /\ grid[c].occupied
                   /\ grid[c].entity # NULL
                   /\ heap[grid[c].entity + 1].active}

\* the zombie stands in the blocking band of the cell
InBand(z, c) ==
    /\ heap[z + 1].x > gridToWorldX(c[2]) - BLOCK_BEHIND
    /\ heap[z + 1].x < gridToWorldX(c[2]) + BLOCK_REACH

\* no active zombie is to the left of the band of a standing plant
NotPast ==
    \A z \in ActiveZombies : \A c \in PlantsInLane(z) :
        heap[z + 1].x > gridToWorldX(c[2]) - BLOCK_BEHIND

\* a zombie that walks in the band of a standing plant attacks that plant
\* in the next tick, without moving
BlockedInBand ==
    [][\A z \in ActiveZombies : \A c \in PlantsInLane(z) :
          /\ heap[z + 1].zstate = "walk"
          /\ InBand(z, c)
          /\ elapsedTime' # elapsedTime
          => /\ heap'[z + 1].zstate = "attack"
             /\ heap'[z + 1].target = grid[c].entity
             /\ heap'[z + 1].x = heap[z + 1].x]_vars

\* C40: with the configured speeds, the frame delta clamped to MAX_DELTA
\* and a time scale of at most 3, a walking zombie never gets to the left
\* of the blocking band of an active plant that stood ahead of it in its
\* lane: once in the band it starts attacking that plant in the next tick.
C40_NoWalkThrough == []NotPast /\ BlockedInBand

\* C40 witness: the fastest zombie, at time scale 3, has just been stopped
\* by the plant: it attacks it from within one stride of the band's right
\* edge.
C40_Witness ==
    \E z \in ActiveZombies : \E c \in PlantsInLane(z) :
        /\ heap[z + 1].kind = "flag"
        /\ timeScale = 3
        /\ heap[z + 1].zstate = "attack"
        /\ heap[z + 1].target = grid[c].entity
        /\ heap[z + 1].blockedAt = elapsedTime
        /\ InBand(z, c)
        /\ heap[z + 1].x
             >= gridToWorldX(c[2]) + BLOCK_REACH
                  - (ZOMBIES.flag.speed * deltaTime(MAX_DELTA, 3)) \div 1000

====
